---- MODULE Spec2Model ----
(***************************************************************************)
(* A model of the BRAWK interpreter core: the Value model (src/value.rs),  *)
(* the stack machine (src/machine.rs), the input files (src/awkio.rs) and  *)
(* the lexer and parser (src/parser.rs).                                   *)
(*                                                                         *)
(* Rust Strings are sequences of one-character strings.  A Value is a      *)
(* record whose "tag" names the enum variant and whose second field is the *)
(* payload; Option::None is the record None.  A Float payload is a finite  *)
(* rational <<numerator, denominator>> in lowest terms.                    *)
(***************************************************************************)
EXTENDS Integers, Sequences, FiniteSets, TLC

VARIABLES
    stack,            \* StackVM.stack : Vec<Option<Value>>, top is the last element
    environ,          \* StackVM.environ : HashMap<String, Option<Value>>
    pc,               \* StackVM.pc
    sp,               \* StackVM.sp
    ir,               \* the opcode whose handler ran last
    halt,             \* Running, or how the process ended (exit status, message)
    overflow_checks,  \* build profile: TRUE = debug (overflow panics), FALSE = release (wraps)
    npush,            \* number of PushValue instructions executed so far
    last_store,       \* history: the value last stored to each variable and array element
    call,             \* the library call made: function name and arguments
    hpc,              \* position of the caller: "ready", "split", "joined", "opened", "read",
                      \* "format_string" (in the loop of parse_format_string), "returned"
    ret,              \* the value the call returned
    subject           \* the operand the call mutates (&mut self, the array of split,
                      \* the AwkIO, the Lexer)

vars == <<stack, environ, pc, sp, ir, halt, overflow_checks, npush, last_store, call, hpc, ret,
         subject>>

vmvars == <<stack, environ, pc, sp, ir, npush>>

libvars == <<call, hpc, ret, subject>>

----------------------------------------------------------------------------
(* Bounds of the model *)

MaxPush == 3

MaxStrLen == 3

\* Incr and Decr are run while the operand stays within -MaxCount .. MaxCount,
\* LoadAssociativeArrayValue while sp is below MaxCount
MaxCount == 3

----------------------------------------------------------------------------
(* enum Value, Option<Value> *)

None == [tag |-> "None"]

Unit == [tag |-> "Unit"]

Number(n) == [tag |-> "Number", n |-> n]

Float(q) == [tag |-> "Float", f |-> q]

Instruction(t) == [tag |-> "Instruction", target |-> t]

Identifier(name) == [tag |-> "Identifier", name |-> name]

AssociativeIdentifier(a, i) == [tag |-> "AssociativeIdentifier", ids |-> <<a, i>>]

StringLiteral(s) == [tag |-> "StringLiteral", s |-> s]

RegexPattern(s) == [tag |-> "RegexPattern", re |-> s]

Bool(b) == [tag |-> "Bool", b |-> b]

ArrayLiteral(m) == [tag |-> "ArrayLiteral", map |-> m]

IsNumber(v) == v.tag = "Number"

IsFloat(v) == v.tag = "Float"

IsString(v) == v.tag = "StringLiteral"

IsArray(v) == v.tag = "ArrayLiteral"

----------------------------------------------------------------------------
(* Process termination *)

Running == [tag |-> "Running"]

\* exit_err!: print the reason, then std::process::exit(1)
exit_err(msg) == [tag |-> "Exit", code |-> 1, msg |-> msg]

\* a Rust panic (failed unwrap, slice out of range, overflow check): status 101
panic(msg) == [tag |-> "Panic", code |-> 101, msg |-> msg]

----------------------------------------------------------------------------
(* f64 as finite rationals *)

Abs(x) == IF x < 0 THEN -x ELSE x

RECURSIVE GCD(_, _)
GCD(a, b) == IF b = 0 THEN a ELSE GCD(b, a % b)

Norm(q) ==
    LET g == GCD(Abs(q[1]), Abs(q[2]))
        s == IF q[2] < 0 THEN -1 ELSE 1
    IN  <<(s * q[1]) \div g, (s * q[2]) \div g>>

QAdd(a, b) == Norm(<<a[1] * b[2] + b[1] * a[2], a[2] * b[2]>>)

QSub(a, b) == Norm(<<a[1] * b[2] - b[1] * a[2], a[2] * b[2]>>)

QMul(a, b) == Norm(<<a[1] * b[1], a[2] * b[2]>>)

QDiv(a, b) == Norm(<<a[1] * b[2], a[2] * b[1]>>)

RECURSIVE QPowNat(_, _)
QPowNat(a, k) == IF k = 0 THEN <<1, 1>> ELSE QMul(a, QPowNat(a, k - 1))

\* f64::powf where the result is a finite rational: integer exponent, and a
\* non-zero base when the exponent is negative
QPowDefined(a, e) == e[2] = 1 /\ (e[1] >= 0 \/ a[1] # 0)

QPow(a, e) ==
    IF e[1] >= 0 THEN QPowNat(a, e[1])
    ELSE QDiv(<<1, 1>>, QPowNat(a, -e[1]))

----------------------------------------------------------------------------
(* impl Value: truthiness and arithmetic (src/value.rs) *)

\* match self { Number(n) => n > 0, StringLiteral(s) => !s.is_empty(),
\*              Bool(b) => b, _ => false }
is_truthy(v) ==
    CASE v.tag = "Number" -> v.n > 0
      [] v.tag = "StringLiteral" -> v.s # <<>>
      [] v.tag = "Bool" -> v.b
      [] OTHER -> FALSE

is_falsy(v) == ~is_truthy(v)

\* HashMap::extend: the entries of b are inserted over those of a
MapExtend(a, b) == [k \in DOMAIN a \cup DOMAIN b |-> IF k \in DOMAIN b THEN b[k] ELSE a[k]]

add(self, other) ==
    CASE IsNumber(self) /\ IsNumber(other) -> Number(self.n + other.n)
      [] IsFloat(self) /\ IsFloat(other) -> Float(QAdd(self.f, other.f))
      [] IsString(self) /\ IsString(other) -> StringLiteral(self.s \o other.s)
      [] IsArray(self) /\ IsArray(other) -> ArrayLiteral(MapExtend(self.map, other.map))
      [] OTHER -> None

subtract(self, other) ==
    CASE IsNumber(self) /\ IsNumber(other) -> Number(self.n - other.n)
      [] IsFloat(self) /\ IsFloat(other) -> Float(QSub(self.f, other.f))
      [] OTHER -> None

multiply(self, other) ==
    CASE IsNumber(self) /\ IsNumber(other) -> Number(self.n * other.n)
      [] IsFloat(self) /\ IsFloat(other) -> Float(QMul(self.f, other.f))
      [] OTHER -> None

\* i64 `/` truncates toward zero
TruncDiv(a, b) ==
    IF (a >= 0) = (b > 0) THEN Abs(a) \div Abs(b) ELSE -(Abs(a) \div Abs(b))

\* i64 `%` takes the sign of the dividend
TruncRem(a, b) == a - b * TruncDiv(a, b)

divide(self, other) ==
    CASE IsNumber(self) /\ IsNumber(other) ->
            IF other.n # 0 THEN Number(TruncDiv(self.n, other.n)) ELSE None
      [] IsFloat(self) /\ IsFloat(other) ->
            IF other.f[1] # 0 THEN Float(QDiv(self.f, other.f)) ELSE None
      [] OTHER -> None

\* The `%` of execute_mod has no implementation in value.rs; it is taken to
\* follow divide: the i64 remainder of two Numbers, absent otherwise.
remainder(self, other) ==
    CASE IsNumber(self) /\ IsNumber(other) ->
            IF other.n # 0 THEN Number(TruncRem(self.n, other.n)) ELSE None
      [] OTHER -> None

RECURSIVE PowNat(_, _)
PowNat(b, k) == IF k = 0 THEN 1 ELSE b * PowNat(b, k - 1)

Panicked == [tag |-> "Panicked"]

\* i64::pow(base, exponent as u32).  A negative exponent casts to a u32 of at
\* least 2^31 with the parity of the exponent: the power of 0, 1 or -1 is
\* exact, any other base overflows i64 (a panic under overflow checks, a
\* wrapped product without them, which is 0 for an even base).
I64PowCast(base, exponent, checks) ==
    IF exponent >= 0 THEN Number(PowNat(base, exponent))
    ELSE CASE base = 0 -> Number(0)
           [] base = 1 -> Number(1)
           [] base = -1 -> Number(IF exponent % 2 = 0 THEN 1 ELSE -1)
           [] OTHER -> IF checks THEN Panicked ELSE Number(0)

\* the powers the model's integers hold: a power below 2^31, and for a negative
\* exponent not the wrapped power of an odd base beyond -1..1
I64PowInModel(base, exponent, checks) ==
    IF exponent >= 0
    THEN \/ Abs(base) <= 1
         \/ exponent <= 1
         \/ Abs(base) <= 2 /\ exponent <= 30
         \/ Abs(base) <= 32 /\ exponent <= 6
         \/ Abs(base) <= 32768 /\ exponent <= 2
    ELSE base \in {-1, 0, 1} \/ checks \/ base % 2 = 0

exponentiate(self, other, checks) ==
    CASE IsNumber(self) /\ IsNumber(other) -> I64PowCast(self.n, other.n, checks)
      [] IsFloat(self) /\ IsFloat(other) -> Float(QPow(self.f, other.f))
      [] OTHER -> None

\* the results of exponentiate that the model's numbers can hold
ExpInModel(self, other, checks) ==
    /\ (IsNumber(self) /\ IsNumber(other)) => I64PowInModel(self.n, other.n, checks)
    /\ (IsFloat(self) /\ IsFloat(other)) => QPowDefined(self.f, other.f)

\* impl Add / Sub / Mul / Div for Value, applied by the handlers to the
\* Option<Value> entries of the stack: an absent operand gives an absent result
Add_add(self, other) == IF self = None \/ other = None THEN None ELSE add(self, other)

Sub_sub(self, other) == IF self = None \/ other = None THEN None ELSE subtract(self, other)

Mul_mul(self, other) == IF self = None \/ other = None THEN None ELSE multiply(self, other)

Div_div(self, other) == IF self = None \/ other = None THEN None ELSE divide(self, other)

Rem_rem(self, other) == IF self = None \/ other = None THEN None ELSE remainder(self, other)

\* i64 `<<` and `>>`: a shift amount outside 0 .. 63 panics where overflow is
\* checked and is taken modulo 64 where it is not
ShiftOverflows(b, checks) == checks /\ (b < 0 \/ b >= 64)

\* i64 `>>` (arithmetic) by a masked amount
I64Shr(a, b) ==
    LET s == b % 64
    IN  IF s > 30 THEN (IF a < 0 THEN -1 ELSE 0) ELSE a \div PowNat(2, s)

\* i64 `<<` by a masked amount, for results the model's integers hold
I64Shl(a, b) == IF a = 0 THEN 0 ELSE a * PowNat(2, b % 64)

I64ShlInModel(a, b) == a = 0 \/ (b % 64 <= 16 /\ Abs(a) <= 16384)

\* Value::shift_left(&self, other)
shift_left(self, other, checks) ==
    IF IsNumber(self) /\ IsNumber(other)
    THEN IF ShiftOverflows(other.n, checks) THEN Panicked ELSE Number(I64Shl(self.n, other.n))
    ELSE None

\* Value::shift_right(&self, other)
shift_right(self, other, checks) ==
    IF IsNumber(self) /\ IsNumber(other)
    THEN IF ShiftOverflows(other.n, checks) THEN Panicked ELSE Number(I64Shr(self.n, other.n))
    ELSE None

\* impl Shl / Shr for Value, applied to the Option<Value> entries of the stack
Shl_shl(self, other, checks) ==
    IF self = None \/ other = None THEN None ELSE shift_left(self, other, checks)

Shr_shr(self, other, checks) ==
    IF self = None \/ other = None THEN None ELSE shift_right(self, other, checks)

\* the byte of a character, for String::cmp
Byte(c) ==
    CASE c = "," -> 44
      [] c = "a" -> 97
      [] c = "b" -> 98
      [] c = "x" -> 120
      [] c = "y" -> 121
      [] OTHER -> 0

\* Ordering as -1 (Less), 0 (Equal), 1 (Greater)
IntCmp(a, b) == IF a < b THEN -1 ELSE IF a > b THEN 1 ELSE 0

\* String::cmp: lexicographic on the bytes
RECURSIVE StrCmp(_, _)
StrCmp(a, b) ==
    IF a = <<>> \/ b = <<>> THEN IntCmp(Len(a), Len(b))
    ELSE IF Head(a) # Head(b) THEN IntCmp(Byte(Head(a)), Byte(Head(b)))
    ELSE StrCmp(Tail(a), Tail(b))

\* impl Ord for Value
cmp(self, other) ==
    CASE IsNumber(self) /\ IsNumber(other) -> IntCmp(self.n, other.n)
      [] IsFloat(self) /\ IsFloat(other) -> IntCmp(self.f[1] * other.f[2], other.f[1] * self.f[2])
      [] IsString(self) /\ IsString(other) -> StrCmp(self.s, other.s)
      [] OTHER -> 0

\* Option<Value>::partial_cmp: None is less than every Some
Option_cmp(self, other) ==
    CASE self = None /\ other = None -> 0
      [] self = None -> -1
      [] other = None -> 1
      [] OTHER -> cmp(self, other)

----------------------------------------------------------------------------
(* struct StackVM (src/machine.rs) *)

EmptyMap == [k \in {} |-> None]

MapInsert(m, k, v) == [x \in DOMAIN m \cup {k} |-> IF x = k THEN v ELSE m[x]]

\* the values PushValue may push
PushSet ==
    {Number(n) : n \in 0 .. 2}
    \cup {Float(<<0, 1>>), Float(<<2, 1>>)}
    \cup {Identifier(<<"x">>), Identifier(<<"y">>)}

NoCall == [fn |-> "none"]

\* StackVM::new
InitVM ==
    /\ stack = <<>>
    /\ environ = EmptyMap
    /\ pc = 0
    /\ sp = 0
    /\ ir = "none"
    /\ npush = 0
    /\ halt = Running
    /\ overflow_checks \in BOOLEAN
    /\ last_store = EmptyMap

Top == stack[Len(stack)]

Second == stack[Len(stack) - 1]

\* the stack after two pops
Popped2 == SubSeq(stack, 1, Len(stack) - 2)

\* the stack after one pop
Popped1 == SubSeq(stack, 1, Len(stack) - 1)

PushValue(v) ==
    /\ halt = Running
    /\ npush < MaxPush
    /\ stack' = Append(stack, v)
    /\ npush' = npush + 1
    /\ ir' = "PushValue"
    /\ UNCHANGED <<environ, pc, sp, halt, overflow_checks, last_store, libvars>>

\* a handler that ends the process with the stack as `rest`
Fatal(op, rest, how) ==
    /\ ir' = op
    /\ stack' = rest
    /\ halt' = how
    /\ UNCHANGED <<environ, pc, sp, npush, overflow_checks, last_store, libvars>>

\* a handler that returns with the stack as `rest`
Return(op, rest) ==
    /\ ir' = op
    /\ stack' = rest
    /\ UNCHANGED <<environ, pc, sp, npush, halt, overflow_checks, last_store, libvars>>

exec_add ==
    /\ halt = Running
    /\ IF Len(stack) < 2
       THEN Fatal("Add", stack, exit_err("Not enough operands on the stack for ADD"))
       ELSE LET left == Top
                right == Second
            IN  Return("Add", Append(Popped2, Add_add(left, right)))

exec_sub ==
    /\ halt = Running
    /\ IF Len(stack) < 2
       THEN Fatal("Sub", stack, exit_err("Not enough operands on the stack for SUB"))
       ELSE LET left == Top
                right == Second
            IN  Return("Sub", Append(Popped2, Sub_sub(left, right)))

exec_mul ==
    /\ halt = Running
    /\ IF Len(stack) < 2
       THEN Fatal("Mul", stack, exit_err("Not enough operands on the stack for MUL"))
       ELSE LET left == Top
                right == Second
            IN  Return("Mul", Append(Popped2, Mul_mul(left, right)))

execute_div ==
    /\ halt = Running
    /\ IF Len(stack) < 2
       THEN Fatal("Div", stack, exit_err("Not enough operands on the stack for DIV"))
       ELSE LET left == Top
                right == Second
            IN  IF right = Number(0)
                THEN Fatal("Div", Popped2, exit_err("Division by zero"))
                ELSE Return("Div", Append(Popped2, Div_div(left, right)))

execute_mod ==
    /\ halt = Running
    /\ IF Len(stack) < 2
       THEN Fatal("Mod", stack, exit_err("Not enough operands on the stack for MOD"))
       ELSE LET left == Top
                right == Second
            IN  IF right = Number(0)
                THEN Fatal("Mod", Popped2, exit_err("Modulo by zero"))
                ELSE Return("Mod", Append(Popped2, Rem_rem(left, right)))

execute_exp ==
    /\ halt = Running
    /\ IF Len(stack) < 2
       THEN Fatal("Exp", stack, exit_err("Not enough operands on the stack for EXP"))
       ELSE LET base == Top
                exponent == Second
                result == IF base = None \/ exponent = None THEN None
                          ELSE exponentiate(base, exponent, overflow_checks)
            IN  /\ (base # None /\ exponent # None) =>
                        ExpInModel(base, exponent, overflow_checks)
                /\ IF result = Panicked
                   THEN Fatal("Exp", Popped2, panic("attempt to multiply with overflow"))
                   ELSE Return("Exp", Append(Popped2, result))

execute_shr ==
    /\ halt = Running
    /\ IF Len(stack) < 2
       THEN Fatal("Shr", stack, exit_err("Not enough operands on the stack for SHR"))
       ELSE LET value == Top
                shift == Second
            IN  IF Shr_shr(value, shift, overflow_checks) = Panicked
                THEN Fatal("Shr", Popped2, panic("attempt to shift right with overflow"))
                ELSE Return("Shr", Append(Popped2, Shr_shr(value, shift, overflow_checks)))

execute_shl ==
    /\ halt = Running
    /\ IF Len(stack) < 2
       THEN Fatal("Shl", stack, exit_err("Not enough operands on the stack for SHL"))
       ELSE LET value == Top
                shift == Second
            IN  /\ (IsNumber(value) /\ IsNumber(shift)) => I64ShlInModel(value.n, shift.n)
                /\ IF Shl_shl(value, shift, overflow_checks) = Panicked
                   THEN Fatal("Shl", Popped2, panic("attempt to shift left with overflow"))
                   ELSE Return("Shl", Append(Popped2, Shl_shl(value, shift, overflow_checks)))

execute_eq ==
    /\ halt = Running
    /\ IF Len(stack) < 2
       THEN Fatal("Eq", stack, exit_err("Not enough operands on the stack for EQ"))
       ELSE LET left == Top
                right == Second
            IN  Return("Eq", Append(Popped2, Bool(left = right)))

execute_ne ==
    /\ halt = Running
    /\ IF Len(stack) < 2
       THEN Fatal("Ne", stack, exit_err("Not enough operands on the stack for NE"))
       ELSE LET left == Top
                right == Second
            IN  Return("Ne", Append(Popped2, Bool(left # right)))

execute_gt ==
    /\ halt = Running
    /\ IF Len(stack) < 2
       THEN Fatal("Gt", stack, exit_err("Not enough operands on the stack for GT"))
       ELSE LET left == Top
                right == Second
            IN  Return("Gt", Append(Popped2, Bool(Option_cmp(left, right) > 0)))

execute_ge ==
    /\ halt = Running
    /\ IF Len(stack) < 2
       THEN Fatal("Ge", stack, exit_err("Not enough operands on the stack for GE"))
       ELSE LET left == Top
                right == Second
            IN  Return("Ge", Append(Popped2, Bool(Option_cmp(left, right) >= 0)))

execute_lt ==
    /\ halt = Running
    /\ IF Len(stack) < 2
       THEN Fatal("Lt", stack, exit_err("Not enough operands on the stack for LT"))
       ELSE LET left == Top
                right == Second
            IN  Return("Lt", Append(Popped2, Bool(Option_cmp(left, right) < 0)))

execute_le ==
    /\ halt = Running
    /\ IF Len(stack) < 2
       THEN Fatal("Le", stack, exit_err("Not enough operands on the stack for LE"))
       ELSE LET left == Top
                right == Second
            IN  Return("Le", Append(Popped2, Bool(Option_cmp(left, right) <= 0)))

exec_load_variable ==
    /\ halt = Running
    /\ IF Len(stack) > 0 /\ Top # None /\ Top.tag = "Identifier"
       THEN LET variable_name == Top.name
            IN  IF variable_name \in DOMAIN environ
                THEN Return("LoadVariable", Append(Popped1, environ[variable_name]))
                ELSE Fatal("LoadVariable", Popped1, exit_err("Error: variable not found"))
       ELSE Fatal("LoadVariable", IF Len(stack) > 0 THEN Popped1 ELSE stack,
                  exit_err("Invalid operand type for LoadVariable"))

execute_store_variable ==
    /\ halt = Running
    /\ IF Len(stack) < 2
       THEN Fatal("StoreVariable", stack,
                  exit_err("Not enough operands on the stack for STORE_VARIABLE"))
       ELSE IF Top # None /\ Top.tag = "Identifier" /\ Second # None
            THEN /\ ir' = "StoreVariable"
                 /\ stack' = Popped2
                 /\ environ' = MapInsert(environ, Top.name, Second)
                 /\ last_store' = MapInsert(last_store, <<"variable", Top.name, <<>>>>, Second)
                 /\ UNCHANGED <<pc, sp, npush, halt, overflow_checks, libvars>>
            ELSE Fatal("StoreVariable", Popped2,
                       exit_err("Invalid operand types for STORE_VARIABLE"))

execute_load_associative_array_value ==
    /\ halt = Running
    /\ sp < MaxCount
    /\ IF Len(stack) = 0
       THEN Fatal("LoadAssociativeArrayValue", stack,
                  exit_err("Not enough operands on the stack for LOAD_ASSOCIATIVE_ARRAY_VALUE"))
       ELSE IF Top.tag = "AssociativeIdentifier"
            THEN LET key == Top.ids[1] \o Top.ids[2]
                 IN  IF key \in DOMAIN environ
                     THEN /\ ir' = "LoadAssociativeArrayValue"
                          /\ stack' = Append(Popped1, environ[key])
                          /\ sp' = sp + 1
                          /\ UNCHANGED <<environ, pc, npush, halt, overflow_checks, last_store, libvars>>
                     ELSE Fatal("LoadAssociativeArrayValue", Popped1,
                                exit_err("Error: either array or index don't exit"))
            ELSE Fatal("LoadAssociativeArrayValue", Popped1,
                       exit_err("Invalid operand type for LOAD_ASSOCIATIVE_ARRAY_VALUE"))

execute_store_associative_array_value ==
    /\ halt = Running
    /\ IF Len(stack) < 2
       THEN Fatal("StoreAssociativeArrayValue", stack,
                  exit_err("Not enough operands on the stack for STORE_ASSOCIATIVE_ARRAY_VALUE"))
       ELSE IF Top.tag = "AssociativeIdentifier" /\ Second # None
            THEN LET key == Top.ids[1] \o Top.ids[2]
                 IN  /\ ir' = "StoreAssociativeArrayValue"
                     /\ stack' = Popped2
                     /\ environ' = MapInsert(environ, key, Second)
                     /\ last_store' = MapInsert(last_store, <<"element", Top.ids[1], Top.ids[2]>>, Second)
                     /\ UNCHANGED <<pc, sp, npush, halt, overflow_checks, libvars>>
            ELSE Fatal("StoreAssociativeArrayValue", Popped2,
                       exit_err("Invalid operand types for STORE_ASSOCIATIVE_ARRAY_VALUE"))

exec_swap ==
    /\ halt = Running
    /\ IF Len(stack) < 2
       THEN Fatal("Swap", stack, exit_err("Not enough operands on the stack for SWAP"))
       ELSE LET top == Top
                second == Second
            IN  Return("Swap", Append(Append(Popped2, top), second))

\* the model duplicates while the stack holds at most MaxPush entries
exec_duplicate ==
    /\ halt = Running
    /\ Len(stack) <= MaxPush
    /\ IF Len(stack) > 0
       THEN Return("Duplicate", Append(stack, Top))
       ELSE Fatal("Duplicate", stack, exit_err("Cannot duplicate an empty stack"))

\* the values PushValue may push in a program of variable and array accesses
StorePushSet ==
    {Identifier(<<"x">>), Identifier(<<"x", "1">>), AssociativeIdentifier(<<"x">>, <<"1">>)}
    \cup {Number(1), StringLiteral(<<"a">>), ArrayLiteral(EmptyMap)}

NextStore ==
    \/ \E v \in StorePushSet : PushValue(v)
    \/ exec_load_variable
    \/ execute_store_variable
    \/ execute_load_associative_array_value
    \/ execute_store_associative_array_value
    \/ exec_swap
    \/ exec_duplicate

NextVM ==
    \/ \E v \in PushSet : PushValue(v)
    \/ exec_add
    \/ exec_sub
    \/ exec_mul
    \/ execute_div
    \/ execute_mod
    \/ execute_exp
    \/ execute_shr
    \/ execute_shl
    \/ execute_eq
    \/ execute_ne
    \/ execute_gt
    \/ execute_ge
    \/ execute_lt
    \/ execute_le
    \/ exec_load_variable
    \/ execute_store_variable

Init ==
    /\ InitVM
    /\ call = NoCall
    /\ hpc = "ready"
    /\ ret = None
    /\ subject = None

Next == NextVM

Spec == Init /\ [][Next]_vars

----------------------------------------------------------------------------
(* Control flow and unary handlers of StackVM (src/machine.rs)             *)

\* std::process::exit(n) reached through the Exit instruction
process_exit(n) == [tag |-> "Exited", code |-> n, msg |-> ""]

\* Value::increment(&mut self): the operand afterwards, None where it returns None
increment(self) ==
    CASE self.tag = "Number" -> Number(self.n + 1)
      [] self.tag = "Float" -> Float(QAdd(self.f, <<1, 1>>))
      [] OTHER -> None

\* Value::decrement(&mut self)
decrement(self) ==
    CASE self.tag = "Number" -> Number(self.n - 1)
      [] self.tag = "Float" -> Float(QSub(self.f, <<1, 1>>))
      [] OTHER -> None

\* impl Neg for Value: Panicked where it panics
Neg_neg(self) ==
    CASE self.tag = "Number" -> Number(-self.n)
      [] self.tag = "Float" -> Float(Norm(<<-self.f[1], self.f[2]>>))
      [] self.tag = "None" -> None
      [] OTHER -> Panicked

\* the operand of Incr or Decr is a Number the model still counts up or down
WithinCount(v, step) == v.tag = "Number" => Abs(v.n + step) <= MaxCount

\* the values PushValue may push in a program with jumps and exits
CtlPushSet ==
    {Instruction(1), Instruction(2)}
    \cup {Bool(TRUE), Bool(FALSE)}
    \cup {Number(0), Number(1)}
    \cup {StringLiteral(<<>>), StringLiteral(<<"a">>)}

execute_incr ==
    /\ halt = Running
    /\ Len(stack) > 0 => WithinCount(Top, 1)
    /\ IF Len(stack) < 1
       THEN Fatal("Incr", stack, exit_err("Not enough operands on the stack for INCR"))
       ELSE LET operand == Top
            IN  Return("Incr", Append(Popped1, increment(operand)))

execute_decr ==
    /\ halt = Running
    /\ Len(stack) > 0 => WithinCount(Top, -1)
    /\ IF Len(stack) < 1
       THEN Fatal("Decr", stack, exit_err("Not enough operands on the stack for INCR"))
       ELSE LET operand == Top
            IN  Return("Decr", Append(Popped1, decrement(operand)))

execute_pos ==
    /\ halt = Running
    /\ IF Len(stack) < 1
       THEN Fatal("Pos", stack, exit_err("Not enough operands on the stack for INCR"))
       ELSE LET operand == Top
            IN  Return("Pos", Append(Popped1, operand))

execute_neg ==
    /\ halt = Running
    /\ IF Len(stack) < 1
       THEN Fatal("Neg", stack, exit_err("Not enough operands on the stack for INCR"))
       ELSE LET operand == Top
            IN  IF Neg_neg(operand) = Panicked
                THEN Fatal("Neg", Popped1,
                           panic("Cannot apply unary negation to non-numeric value"))
                ELSE Return("Neg", Append(Popped1, Neg_neg(operand)))

\* // TODO: Implement BEGIN
execute_begin ==
    /\ halt = Running
    /\ Return("Begin", stack)

\* // TODO: Implement END
execute_end ==
    /\ halt = Running
    /\ Return("End", stack)

\* Value::exit(&self): how the process goes on after the call
Value_exit(self) == IF self.tag = "Number" THEN process_exit(self.n) ELSE Running

execute_exit ==
    /\ halt = Running
    /\ ir' = "Exit"
    /\ IF Len(stack) > 0
       THEN LET exit_reason == Top
            IN  /\ stack' = Popped1
                /\ halt' = Value_exit(exit_reason)
       ELSE /\ stack' = stack
            /\ halt' = process_exit(1)
    /\ UNCHANGED <<environ, pc, sp, npush, overflow_checks, last_store, libvars>>

\* a jump handler: the stack it leaves and the sp it writes
Jumped(rest, target) ==
    /\ stack' = rest
    /\ sp' = target
    /\ UNCHANGED <<environ, pc, npush, halt, overflow_checks, last_store, libvars>>

\* the top of the stack is Some(Value::Instruction(target))
TopIsInstruction == Len(stack) > 0 /\ Top.tag = "Instruction"

\* the stack after the pop of a handler's first `if let`
AfterPop == IF Len(stack) > 0 THEN Popped1 ELSE stack

exec_jump_if_false ==
    /\ halt = Running
    /\ ir' = "JumpIfFalse"
    /\ IF TopIsInstruction
       THEN LET target == Top.target
            IN  IF Len(stack) > 1
                THEN IF Second = Bool(FALSE)
                     THEN Jumped(Popped2, target)
                     ELSE Jumped(Popped2, sp)
                ELSE Jumped(Popped1, sp)
       ELSE Jumped(AfterPop, sp)

exec_jump_if_true ==
    /\ halt = Running
    /\ ir' = "JumpIfTrue"
    /\ IF TopIsInstruction
       THEN LET target == Top.target
            IN  IF Len(stack) > 1
                THEN IF Second = Bool(TRUE)
                     THEN Jumped(Popped2, target)
                     ELSE Jumped(Popped2, sp)
                ELSE Jumped(Popped1, sp)
       ELSE Jumped(AfterPop, sp)

exec_jump ==
    /\ halt = Running
    /\ ir' = "Jump"
    /\ IF TopIsInstruction
       THEN Jumped(Popped1, Top.target)
       ELSE Jumped(AfterPop, sp)

NextCtl ==
    \/ \E v \in CtlPushSet : PushValue(v)
    \/ execute_incr
    \/ execute_decr
    \/ execute_pos
    \/ execute_neg
    \/ execute_begin
    \/ execute_end
    \/ execute_exit
    \/ exec_jump_if_false
    \/ exec_jump_if_true
    \/ exec_jump

SpecCtl == Init /\ [][NextCtl]_vars

SpecStore == Init /\ [][NextStore]_vars

----------------------------------------------------------------------------
(* The regex crate, as value.rs uses it.  A pattern is a non-empty sequence *)
(* of characters: "." matches any character, "(" alone does not compile,   *)
(* every other character matches itself.  A replacement holds no "$".      *)

\* Regex::new(pattern).is_ok()
Regex_new_ok(re) == \A j \in 1 .. Len(re) : re[j] # "("

\* the pattern matches s at position i (1-based)
MatchesAt(re, s, i) ==
    /\ i >= 1
    /\ i + Len(re) - 1 <= Len(s)
    /\ \A j \in 1 .. Len(re) : re[j] = "." \/ re[j] = s[i + j - 1]

\* the start of the leftmost match at or after `from`, 0 when there is none
FindFrom(re, s, from) ==
    LET hits == {i \in from .. Len(s) : MatchesAt(re, s, i)}
    IN  IF hits = {} THEN 0 ELSE CHOOSE i \in hits : \A k \in hits : i <= k

Regex_is_match(re, s) == FindFrom(re, s, 1) # 0

\* Regex::replace: the leftmost match only
Regex_replace(re, s, rep) ==
    LET i == FindFrom(re, s, 1)
    IN  IF i = 0 THEN s
        ELSE SubSeq(s, 1, i - 1) \o rep \o SubSeq(s, i + Len(re), Len(s))

RECURSIVE ReplaceAllFrom(_, _, _, _)
ReplaceAllFrom(re, s, rep, from) ==
    LET i == FindFrom(re, s, from)
    IN  IF i = 0 THEN SubSeq(s, from, Len(s))
        ELSE SubSeq(s, from, i - 1) \o rep \o ReplaceAllFrom(re, s, rep, i + Len(re))

\* Regex::replace_all: every non-overlapping match, left to right
Regex_replace_all(re, s, rep) == ReplaceAllFrom(re, s, rep, 1)

RECURSIVE SplitFrom(_, _, _)
SplitFrom(re, s, from) ==
    LET i == FindFrom(re, s, from)
    IN  IF i = 0 THEN <<SubSeq(s, from, Len(s))>>
        ELSE <<SubSeq(s, from, i - 1)>> \o SplitFrom(re, s, i + Len(re))

\* Regex::split: the text between the matches, the trailing piece included
Regex_split(re, s) == SplitFrom(re, s, 1)

\* the number of non-overlapping matches, left to right
MatchCount(re, s) == Len(Regex_split(re, s)) - 1

----------------------------------------------------------------------------
(* impl Value: the string library (src/value.rs) *)

\* a Rust bool returned as such, not wrapped in a Value
RustBool(b) == [tag |-> "bool", rb |-> b]

Digits == <<"0", "1", "2", "3", "4", "5", "6", "7", "8", "9">>

\* usize::to_string
RECURSIVE to_string(_)
to_string(i) ==
    IF i < 10 THEN <<Digits[i + 1]>> ELSE to_string(i \div 10) \o <<Digits[(i % 10) + 1]>>

\* the outcome of a library call: the value returned, the operand it mutated,
\* and how the process stands afterwards
Outcome(r, m, h) == [ret |-> r, subject |-> m, halt |-> h]

\* Value::sub(&mut self, regex, replacement)
sub(self, regex, replacement) ==
    IF IsString(self) /\ IsString(regex) /\ IsString(replacement)
    THEN IF Regex_new_ok(regex.s)
         THEN Outcome(Bool(TRUE),
                      StringLiteral(Regex_replace(regex.s, self.s, replacement.s)),
                      Running)
         ELSE Outcome(None, self, exit_err("Invalid regular expression in sub function"))
    ELSE Outcome(None, self, exit_err("Invalid usage of sub function"))

\* Value::substitute(&mut self, regex, replacement)
substitute(self, regex, replacement) ==
    IF IsString(self) /\ IsString(regex) /\ IsString(replacement)
    THEN IF Regex_new_ok(regex.s)
         THEN Outcome(Unit,
                      StringLiteral(Regex_replace_all(regex.s, self.s, replacement.s)),
                      Running)
         ELSE Outcome(None, self, Running)
    ELSE Outcome(None, self, Running)

\* Value::gsub(&mut self, regex, replacement)
gsub(self, regex, replacement) ==
    IF IsString(self) /\ IsString(regex) /\ IsString(replacement)
    THEN IF Regex_new_ok(regex.s)
         THEN Outcome(Unit,
                      StringLiteral(Regex_replace_all(regex.s, self.s, replacement.s)),
                      Running)
         ELSE Outcome(None, self, Running)
    ELSE Outcome(None, self, Running)

\* the loop of split: insert piece number index (from 0) at key index.to_string()
RECURSIVE InsertPieces(_, _, _)
InsertPieces(array_map, split_values, index) ==
    IF index >= Len(split_values) THEN array_map
    ELSE InsertPieces(
            MapInsert(array_map, to_string(index), StringLiteral(split_values[index + 1])),
            split_values, index + 1)

\* Value::split(&self, regex, array: &mut Value)
split(self, regex, array) ==
    IF IsString(self) /\ IsString(regex) /\ IsArray(array)
    THEN IF Regex_new_ok(regex.s)
         THEN LET split_values == Regex_split(regex.s, self.s)
              IN  Outcome(Number(Len(split_values)),
                          ArrayLiteral(InsertPieces(array.map, split_values, 0)),
                          Running)
         ELSE Outcome(None, array, exit_err("Invalid regular expression in split function"))
    ELSE Outcome(None, array, exit_err("Invalid usage of split function"))

\* v.get_string().unwrap_or_default()
get_string_or_default(v) == IF IsString(v) THEN v.s ELSE <<>>

\* the orders in which a HashMap may yield its keys
KeyOrders(m) ==
    {o \in [1 .. Cardinality(DOMAIN m) -> DOMAIN m] :
        \A i, j \in 1 .. Cardinality(DOMAIN m) : o[i] = o[j] => i = j}

\* [String]::join
RECURSIVE JoinStrs(_, _)
JoinStrs(strs, sepstr) ==
    IF Len(strs) = 0 THEN <<>>
    ELSE IF Len(strs) = 1 THEN strs[1]
    ELSE strs[1] \o sepstr \o JoinStrs(Tail(strs), sepstr)

\* Value::join(&self, separator, array): the values of the map, in the order
\* the HashMap yields them, joined with self; every order is a possible result
join(self, separator, array) ==
    IF IsString(self) /\ IsArray(array)
    THEN {StringLiteral(JoinStrs([i \in 1 .. Len(o) |-> get_string_or_default(array.map[o[i]])],
                                 self.s)) : o \in KeyOrders(array.map)}
    ELSE {None}

\* `x as usize` for an i32 x, as <<hi, lo>> standing for hi * 2^64 + lo
as_usize(x) == IF x >= 0 THEN <<0, x>> ELSE <<1, x>>

\* usize `+`: the sum reaches 2^64 when one operand is a cast negative and the
\* low parts sum to 0 or more, or when both are cast negatives
usize_add_overflows(a, b) ==
    \/ a[1] + b[1] = 2
    \/ a[1] + b[1] = 1 /\ a[2] + b[2] >= 0

\* the wrapped sum
usize_add(a, b) ==
    CASE a[1] + b[1] = 0 -> <<0, a[2] + b[2]>>
      [] a[1] + b[1] = 1 -> IF a[2] + b[2] >= 0 THEN <<0, a[2] + b[2]>> ELSE <<1, a[2] + b[2]>>
      [] OTHER -> <<1, a[2] + b[2]>>

\* usize::min with a length
usize_min(a, len) == IF a[1] = 1 \/ a[2] > len THEN len ELSE a[2]

\* Value::substring(&self, start: i32, length: i32)
substring(self, start, length, checks) ==
    IF IsString(self)
    THEN LET ustart == as_usize(start)
             ulen == as_usize(length)
         IN  IF checks /\ usize_add_overflows(ustart, ulen)
             THEN Outcome(None, self, panic("attempt to add with overflow"))
             ELSE LET end == usize_min(usize_add(ustart, ulen), Len(self.s))
                  IN  IF ustart[1] = 1 \/ ustart[2] > end
                      THEN Outcome(None, self, panic("slice index out of range"))
                      ELSE Outcome(StringLiteral(SubSeq(self.s, ustart[2] + 1, end)),
                                   self, Running)
    ELSE Outcome(None, self, Running)

\* str::find(&str): the 0-based position of the first occurrence of pattern in
\* source at or after position from, -1 for Option::None
RECURSIVE StrFindFrom(_, _, _)
StrFindFrom(source, pattern, from) ==
    IF from + Len(pattern) > Len(source) THEN -1
    ELSE IF SubSeq(source, from + 1, from + Len(pattern)) = pattern THEN from
    ELSE StrFindFrom(source, pattern, from + 1)

StrFind(source, pattern) == StrFindFrom(source, pattern, 0)

\* index without the `+ 1`
index_0based(self, target) ==
    IF IsString(self) /\ IsString(target)
    THEN Outcome(Number(IF StrFind(self.s, target.s) # -1 THEN StrFind(self.s, target.s) ELSE 0),
                 None, Running)
    ELSE Outcome(None, None, exit_err("Invalid usage of index function"))

\* Value::index(&self, target)
index(self, target) ==
    IF IsString(self) /\ IsString(target)
    THEN LET position == StrFind(self.s, target.s)
         IN  IF position # -1
             THEN Outcome(Number(position + 1), None, Running)
             ELSE Outcome(Number(0), None, Running)
    ELSE Outcome(None, None, exit_err("Invalid usage of index function"))

\* Value::index_of(&self, target)
index_of(self, target) ==
    IF IsString(self) /\ IsString(target)
    THEN LET position == StrFind(self.s, target.s)
         IN  IF position # -1
             THEN Outcome(Number(position + 1), None, Running)
             ELSE Outcome(Number(0), None, Running)
    ELSE Outcome(None, None, Running)

\* Value::ere_match(&self, pattern)
ere_match(self, pattern) ==
    IF IsString(self) /\ pattern.tag = "RegexPattern"
    THEN IF Regex_new_ok(pattern.re) THEN Bool(Regex_is_match(pattern.re, self.s)) ELSE None
    ELSE Bool(FALSE)

\* Value::ere_non_match(&self, pattern)
ere_non_match(self, pattern) ==
    IF IsString(self) /\ pattern.tag = "RegexPattern"
    THEN IF Regex_new_ok(pattern.re) THEN Bool(~Regex_is_match(pattern.re, self.s)) ELSE None
    ELSE Bool(FALSE)

\* Value::match(&self, pattern)
match(self, pattern) ==
    IF IsString(self) /\ IsString(pattern)
    THEN IF Regex_new_ok(pattern.s) THEN Bool(Regex_is_match(pattern.s, self.s)) ELSE None
    ELSE None

\* Value::not_match(&self, pattern): Panicked where the unwrap fails
not_match(self, pattern) ==
    IF match(self, pattern) = None THEN Panicked
    ELSE Bool(is_falsy(match(self, pattern)))

\* Value::match_array(&self, regex, array)
match_array(self, regex, array) ==
    IF IsString(self) /\ regex.tag = "RegexPattern" /\ IsArray(array)
    THEN IF Regex_new_ok(regex.re)
         THEN Bool(\E k \in DOMAIN array.map :
                        IsString(array.map[k]) /\ Regex_is_match(regex.re, array.map[k].s))
         ELSE None
    ELSE None

\* Value::non_match_array(&self, regex, array)
non_match_array(self, regex, array) ==
    IF match_array(self, regex, array) = None THEN Panicked
    ELSE Bool(~is_falsy(match_array(self, regex, array)))

----------------------------------------------------------------------------
(* struct AwkIO (src/awkio.rs).  An open input is the sequence of the lines *)
(* still to be read, each one ended by a newline in the file.               *)

RustString(s) == [tag |-> "String", str |-> s]

\* AwkIO::new
AwkIO_new == [tag |-> "AwkIO", inputs |-> EmptyMap, fields |-> <<>>, line |-> <<>>]

\* AwkIO::add_input on a file that holds the lines `content`
add_input(self, file_path, content) ==
    [self EXCEPT !.inputs = MapInsert(self.inputs, file_path, content)]

\* str::trim
RECURSIVE trim(_)
trim(s) ==
    IF s = <<>> THEN s
    ELSE IF Head(s) \in {" ", "\n"} THEN trim(Tail(s))
    ELSE IF s[Len(s)] \in {" ", "\n"} THEN trim(SubSeq(s, 1, Len(s) - 1))
    ELSE s

\* str::split(char): the pieces between the delimiters, at least one piece
RECURSIVE str_split(_, _)
str_split(s, delimiter) ==
    IF \E i \in 1 .. Len(s) : s[i] = delimiter
    THEN LET i == CHOOSE k \in 1 .. Len(s) :
                    s[k] = delimiter /\ \A j \in 1 .. (k - 1) : s[j] # delimiter
         IN  <<SubSeq(s, 1, i - 1)>> \o str_split(SubSeq(s, i + 1, Len(s)), delimiter)
    ELSE <<s>>

\* AwkIO::read_line_from_input: BufRead::read_line appends the next line and
\* its newline to self.line, nothing at the end of the file
read_line_from_input(self, file_path, delimiter) ==
    IF file_path \in DOMAIN self.inputs
    THEN LET input == self.inputs[file_path]
             line == IF input = <<>> THEN self.line ELSE self.line \o Head(input) \o <<"\n">>
             rest == IF input = <<>> THEN input ELSE Tail(input)
         IN  [self EXCEPT !.inputs = MapInsert(self.inputs, file_path, rest),
                          !.line = line,
                          !.fields = IF line # <<>> THEN str_split(trim(line), delimiter)
                                     ELSE self.fields]
    ELSE self

\* AwkIO::get_field
get_field(self, i) ==
    IF i > 0 /\ i <= Len(self.fields)
    THEN RustString(self.fields[i])
    ELSE RustString(<<>>)

----------------------------------------------------------------------------
(* struct Lexer and the recursive-descent parser (src/parser.rs).  The      *)
(* input is a sequence of ASCII characters, so that the character index and *)
(* the byte offset of a position coincide.  An AstNode is the record of its  *)
(* variant name and the tuple of its fields.  A parse function yields        *)
(* Parsed(node, lexer); or Aborted(msg, lexer) when an assert_eq!, an unwrap *)
(* or a panic! ends the process; or Diverges(lexer) when it never returns.   *)

AstNode(variant, fields) == [tag |-> variant, args |-> fields]

Parsed(node, lexer) == [tag |-> "Parsed", node |-> node, lexer |-> lexer]

Aborted(msg, lexer) == [tag |-> "Aborted", msg |-> msg, lexer |-> lexer]

Diverges(lexer) == [tag |-> "Diverges", lexer |-> lexer]

\* the rest of a parse function after a call that returned: F of what the call
\* yielded, or nothing when the call ended the process or never returned
Then(r, F(_)) == IF r.tag # "Parsed" THEN r ELSE F(r)

\* char::is_alphabetic, is_digit(10), is_alphanumeric, is_whitespace on ASCII
Alphabetic ==
    {"a", "b", "c", "d", "e", "f", "g", "h", "i", "j", "k", "l", "m", "n", "o", "p", "q",
     "r", "s", "t", "u", "v", "w", "x", "y", "z", "A", "B", "C", "D", "E", "F", "G", "H",
     "I", "J", "K", "L", "M", "N", "O", "P", "Q", "R", "S", "T", "U", "V", "W", "X", "Y",
     "Z"}

is_alphabetic(ch) == ch \in Alphabetic

is_digit(ch) == \E d \in 1 .. 10 : Digits[d] = ch

is_alphanumeric(ch) == is_alphabetic(ch) \/ is_digit(ch)

is_whitespace(ch) == ch \in {" ", "\t", "\n", "\r"}

\* Lexer::new
Lexer_new(input) == [input |-> input, position |-> 0]

\* what peek yields at the end of the input (Option::None)
NoChar == "None"

\* Lexer::peek
peek(self) ==
    IF self.position < Len(self.input) THEN self.input[self.position + 1] ELSE NoChar

\* Lexer::advance
advance(self) == IF peek(self) # NoChar THEN [self EXCEPT !.position = @ + 1] ELSE self

\* Lexer::previous_lexeme
previous_lexeme(self) == SubSeq(self.input, 1, self.position)

\* while let Some(ch) = self.peek() { if accepts(ch) { self.advance() } else { break } }
advance_while(self, accepts(_)) ==
    LET stop == CHOOSE p \in self.position .. Len(self.input) :
                    /\ \A q \in (self.position + 1) .. p : accepts(self.input[q])
                    /\ p = Len(self.input) \/ ~accepts(self.input[p + 1])
    IN  [self EXCEPT !.position = stop]

\* the characters between two positions: self.input[start..self.position]
Lexeme(self, start) == SubSeq(self.input, start + 1, self.position)

\* Lexer::skip_whitespace
skip_whitespace(self) == advance_while(self, is_whitespace)

\* Lexer::consume_identifier
consume_identifier(self) ==
    LET after == advance_while(self, LAMBDA ch : is_alphanumeric(ch) \/ ch = "_")
    IN  [value |-> Lexeme(after, self.position), lexer |-> after]

\* Lexer::consume_string_literal
consume_string_literal(self) ==
    LET opened == advance(self)
        closing == advance_while(opened, LAMBDA ch : ch # "\"")
    IN  [value |-> Lexeme(closing, opened.position), lexer |-> advance(closing)]

\* Lexer::consume_digit_sequence
consume_digit_sequence(self) ==
    LET after == advance_while(self, is_digit)
    IN  [value |-> Lexeme(after, self.position), lexer |-> after]

\* value.push_str(&self.consume_digit_sequence()) on the lexer the value was read from
PushDigits(read) ==
    LET digits == consume_digit_sequence(read.lexer)
    IN  [value |-> read.value \o digits.value, lexer |-> digits.lexer]

\* value.push(ch); self.advance() when the character at the position is one of chars
PushOneOf(read, chars) ==
    IF peek(read.lexer) \in chars
    THEN [value |-> Append(read.value, peek(read.lexer)), lexer |-> advance(read.lexer)]
    ELSE read

\* Lexer::consume_floating_point_literal
consume_floating_point_literal(self) ==
    LET FractionPart(whole) ==
            IF peek(whole.lexer) = "." THEN PushDigits(PushOneOf(whole, {"."})) ELSE whole
        ExponentPart(fraction) ==
            IF peek(fraction.lexer) \in {"e", "E"}
            THEN PushDigits(PushOneOf(PushOneOf(fraction, {"e", "E"}), {"+", "-"}))
            ELSE fraction
    IN  ExponentPart(FractionPart(PushDigits([value |-> <<>>, lexer |-> self])))

\* Lexer::consume_character: the character at the position, which stays where it is
consume_character(self) == IF peek(self) = NoChar THEN "NUL" ELSE peek(self)

\* Lexer::consume_redirection
consume_redirection(self) ==
    LET after == advance_while(self, is_alphabetic)
    IN  [value |-> Lexeme(after, self.position), lexer |-> after]

\* assert_eq!(lexer.peek(), Some(ch)); lexer.advance(); for each ch of chars in turn
RECURSIVE assert_peek(_, _)
assert_peek(lexer, chars) ==
    IF chars = <<>> THEN Parsed(None, lexer)
    ELSE IF peek(lexer) = Head(chars) THEN assert_peek(advance(lexer), Tail(chars))
    ELSE Aborted("assertion left == right failed", lexer)

RECURSIVE parse_expression(_)
RECURSIVE parse_statement(_)

\* parse_identifier
parse_identifier(lexer) == consume_identifier(lexer)

\* parse_redirection
parse_redirection(lexer) == consume_redirection(lexer)

\* parse_variable
parse_variable(lexer) ==
    LET identifier == parse_identifier(lexer)
    IN  Parsed(AstNode("Variable", <<identifier.value>>), identifier.lexer)

\* parse_integer_literal
parse_integer_literal(lexer) == consume_digit_sequence(lexer)

\* parse_floating_point_literal
parse_floating_point_literal(lexer) == consume_floating_point_literal(lexer)

\* parse_constant
parse_constant(lexer) ==
    IF peek(lexer) = NoChar THEN Aborted("called Option::unwrap() on a None value", lexer)
    ELSE IF is_digit(peek(lexer))
    THEN LET literal == parse_integer_literal(lexer)
         IN  Parsed(AstNode("Constant", <<AstNode("IntegerLiteral", <<literal.value>>)>>),
                    literal.lexer)
    ELSE IF peek(lexer) = "."
    THEN LET literal == parse_floating_point_literal(lexer)
         IN  Parsed(AstNode("Constant",
                            <<AstNode("FloatingPointLiteral", <<literal.value>>)>>),
                    literal.lexer)
    ELSE Aborted("Unexpected token while parsing constant", lexer)

\* parse_string_literal
parse_string_literal(lexer) ==
    LET literal == consume_string_literal(lexer)
    IN  Parsed(AstNode("Constant", <<AstNode("StringLiteral", <<literal.value>>)>>),
               literal.lexer)

\* parse_primary_expression
parse_primary_expression(lexer) ==
    IF peek(lexer) = NoChar THEN Aborted("called Option::unwrap() on a None value", lexer)
    ELSE IF is_alphabetic(peek(lexer)) THEN parse_variable(lexer)
    ELSE IF is_digit(peek(lexer)) THEN parse_constant(lexer)
    ELSE IF peek(lexer) = "\"" THEN parse_string_literal(lexer)
    ELSE IF peek(lexer) = "("
    THEN Then(parse_expression(advance(lexer)), LAMBDA expression :
         Then(assert_peek(expression.lexer, <<")">>), LAMBDA closed :
         Parsed(expression.node, closed.lexer)))
    ELSE Aborted("Unexpected token while parsing primary expression", lexer)

\* what a binary level returns after its loop: operands.pop() if one operand is
\* left, the node of two operands and no operator otherwise
OneOperand(variant, operands) ==
    IF Len(operands) = 1 THEN operands[1]
    ELSE AstNode(variant, <<operands[1], <<>>, operands[2]>>)

\* what an n-ary level returns after its loop: operands.pop() if one operand is
\* left, the node of the first operand and the others otherwise
FirstAndOthers(variant, operands) ==
    IF Len(operands) = 1 THEN operands[1]
    ELSE AstNode(variant, <<Head(operands), Tail(operands)>>)

\* operands.push(variant(operands.pop(), operator, right))
PushBinary(operands, variant, operator, right) ==
    Append(SubSeq(operands, 1, Len(operands) - 1),
           AstNode(variant, <<operands[Len(operands)], operator, right>>))

\* the loop of parse_multiplicative_expression: parse_multiplicative_expression_loop(l,
\* operands, operator) parses the operand at l, the first one or the right one of
\* operator, and then tests the condition of the while loop
RECURSIVE parse_multiplicative_expression_loop(_, _, _)
parse_multiplicative_expression_loop(l, operands, operator) ==
    Then(parse_primary_expression(l), LAMBDA right :
    LET pushed == IF Len(operands) = 0 THEN <<right.node>>
                  ELSE PushBinary(operands, "MultiplicativeExpression", operator, right.node)
        second == advance(right.lexer)
    IN  IF peek(right.lexer) \in {"*", "/", "%"}
        THEN parse_multiplicative_expression_loop(second, pushed, <<peek(right.lexer)>>)
        ELSE Parsed(OneOperand("MultiplicativeExpression", pushed), right.lexer))

\* parse_multiplicative_expression
parse_multiplicative_expression(lexer) ==
    parse_multiplicative_expression_loop(lexer, <<>>, <<>>)

\* the loop of parse_additive_expression: parse_additive_expression_loop(l, operands,
\* operator) parses the operand at l, the first one or the right one of operator, and
\* then tests the condition of the while loop
RECURSIVE parse_additive_expression_loop(_, _, _)
parse_additive_expression_loop(l, operands, operator) ==
    Then(parse_multiplicative_expression(l), LAMBDA right :
    LET pushed == IF Len(operands) = 0 THEN <<right.node>>
                  ELSE PushBinary(operands, "AdditiveExpression", operator, right.node)
        second == advance(right.lexer)
    IN  IF peek(right.lexer) \in {"+", "-"}
        THEN parse_additive_expression_loop(second, pushed, <<peek(right.lexer)>>)
        ELSE Parsed(OneOperand("AdditiveExpression", pushed), right.lexer))

\* parse_additive_expression
parse_additive_expression(lexer) ==
    parse_additive_expression_loop(lexer, <<>>, <<>>)

\* the loop of parse_shift_expression: parse_shift_expression_loop(l, operands,
\* operator) parses the operand at l, the first one or the right one of operator, and
\* then tests the condition of the while loop
RECURSIVE parse_shift_expression_loop(_, _, _)
parse_shift_expression_loop(l, operands, operator) ==
    Then(parse_additive_expression(l), LAMBDA right :
    LET pushed == IF Len(operands) = 0 THEN <<right.node>>
                  ELSE PushBinary(operands, "ShiftExpression", operator, right.node)
        second == IF peek(advance(right.lexer)) \in {"<", ">"}
                  THEN advance(advance(right.lexer)) ELSE advance(right.lexer)
    IN  IF peek(right.lexer) \in {"<", ">"}
        THEN parse_shift_expression_loop(second, pushed, <<peek(right.lexer)>>)
        ELSE Parsed(OneOperand("ShiftExpression", pushed), right.lexer))

\* parse_shift_expression
parse_shift_expression(lexer) ==
    parse_shift_expression_loop(lexer, <<>>, <<>>)

\* the loop of parse_relational_expression: parse_relational_expression_loop(l,
\* operands, operator) parses the operand at l, the first one or the right one of
\* operator, and then tests the condition of the while loop
RECURSIVE parse_relational_expression_loop(_, _, _)
parse_relational_expression_loop(l, operands, operator) ==
    Then(parse_shift_expression(l), LAMBDA right :
    LET pushed == IF Len(operands) = 0 THEN <<right.node>>
                  ELSE PushBinary(operands, "RelationalExpression", operator, right.node)
        second == IF peek(advance(right.lexer)) \in {"=", ">"}
                  THEN advance(advance(right.lexer)) ELSE advance(right.lexer)
    IN  IF peek(right.lexer) \in {"<", ">", "="}
        THEN parse_relational_expression_loop(second, pushed, <<peek(right.lexer)>>)
        ELSE Parsed(OneOperand("RelationalExpression", pushed), right.lexer))

\* parse_relational_expression
parse_relational_expression(lexer) ==
    parse_relational_expression_loop(lexer, <<>>, <<>>)

\* the loop of parse_equality_expression: parse_equality_expression_loop(l, operands,
\* operator) parses the operand at l, the first one or the right one of operator, and
\* then tests the condition of the while loop
RECURSIVE parse_equality_expression_loop(_, _, _)
parse_equality_expression_loop(l, operands, operator) ==
    Then(parse_relational_expression(l), LAMBDA right :
    LET pushed == IF Len(operands) = 0 THEN <<right.node>>
                  ELSE PushBinary(operands, "EqualityExpression", operator, right.node)
        second == advance(advance(right.lexer))
    IN  IF peek(right.lexer) \in {"=", "!"}
        THEN parse_equality_expression_loop(second, pushed, previous_lexeme(second))
        ELSE Parsed(OneOperand("EqualityExpression", pushed), right.lexer))

\* parse_equality_expression
parse_equality_expression(lexer) ==
    parse_equality_expression_loop(lexer, <<>>, <<>>)

\* the loop of parse_and_expression: parse_and_expression_loop(l, operands) parses the
\* item at l, pushes it and then tests the condition of the while loop
RECURSIVE parse_and_expression_loop(_, _)
parse_and_expression_loop(l, operands) ==
    Then(parse_equality_expression(l), LAMBDA operand :
    IF peek(operand.lexer) = "&"
    THEN IF peek(advance(operand.lexer)) = "&"
         THEN parse_and_expression_loop(advance(advance(operand.lexer)),
                                        Append(operands, operand.node))
         ELSE Parsed(FirstAndOthers("AndExpression", Append(operands, operand.node)),
                     advance(operand.lexer))
    ELSE Parsed(FirstAndOthers("AndExpression", Append(operands, operand.node)),
                operand.lexer))

\* parse_and_expression
parse_and_expression(lexer) ==
    parse_and_expression_loop(lexer, <<>>)

\* the loop of parse_exclusive_or_expression: parse_exclusive_or_expression_loop(l,
\* operands) parses the item at l, pushes it and then tests the condition of the while
\* loop
RECURSIVE parse_exclusive_or_expression_loop(_, _)
parse_exclusive_or_expression_loop(l, operands) ==
    Then(parse_and_expression(l), LAMBDA operand :
    IF peek(operand.lexer) = "^"
    THEN parse_exclusive_or_expression_loop(advance(operand.lexer),
                                            Append(operands, operand.node))
    ELSE Parsed(FirstAndOthers("ExclusiveOrExpression", Append(operands, operand.node)),
                operand.lexer))

\* parse_exclusive_or_expression
parse_exclusive_or_expression(lexer) ==
    parse_exclusive_or_expression_loop(lexer, <<>>)

\* the loop of parse_inclusive_or_expression: parse_inclusive_or_expression_loop(l,
\* operands) parses the item at l, pushes it and then tests the condition of the while
\* loop
RECURSIVE parse_inclusive_or_expression_loop(_, _)
parse_inclusive_or_expression_loop(l, operands) ==
    Then(parse_exclusive_or_expression(l), LAMBDA operand :
    IF peek(operand.lexer) = "|"
    THEN parse_inclusive_or_expression_loop(advance(operand.lexer),
                                            Append(operands, operand.node))
    ELSE Parsed(FirstAndOthers("InclusiveOrExpression", Append(operands, operand.node)),
                operand.lexer))

\* parse_inclusive_or_expression
parse_inclusive_or_expression(lexer) ==
    parse_inclusive_or_expression_loop(lexer, <<>>)

\* the loop of parse_logical_and_expression: parse_logical_and_expression_loop(l,
\* operands) parses the item at l, pushes it and then tests the condition of the while
\* loop
RECURSIVE parse_logical_and_expression_loop(_, _)
parse_logical_and_expression_loop(l, operands) ==
    Then(parse_inclusive_or_expression(l), LAMBDA operand :
    IF peek(operand.lexer) = "&"
    THEN parse_logical_and_expression_loop(advance(operand.lexer),
                                           Append(operands, operand.node))
    ELSE Parsed(FirstAndOthers("LogicalAndExpression", Append(operands, operand.node)),
                operand.lexer))

\* parse_logical_and_expression
parse_logical_and_expression(lexer) ==
    parse_logical_and_expression_loop(lexer, <<>>)

\* the loop of parse_logical_or_expression: parse_logical_or_expression_loop(l,
\* operands) parses the item at l, pushes it and then tests the condition of the while
\* loop
RECURSIVE parse_logical_or_expression_loop(_, _)
parse_logical_or_expression_loop(l, operands) ==
    Then(parse_logical_and_expression(l), LAMBDA operand :
    IF peek(operand.lexer) = "|"
    THEN IF peek(advance(operand.lexer)) = "|"
         THEN parse_logical_or_expression_loop(advance(advance(operand.lexer)),
                                               Append(operands, operand.node))
         ELSE Parsed(FirstAndOthers("LogicalOrExpression", Append(operands, operand.node)),
                     advance(operand.lexer))
    ELSE Parsed(FirstAndOthers("LogicalOrExpression", Append(operands, operand.node)),
                operand.lexer))

\* parse_logical_or_expression
parse_logical_or_expression(lexer) ==
    parse_logical_or_expression_loop(lexer, <<>>)

\* parse_expression
parse_expression(lexer) == parse_logical_or_expression(lexer)

\* the loop of parse_expression_list: parse_expression_list_loop(l, expressions) parses
\* the item at l, pushes it and then tests the condition of the while loop
RECURSIVE parse_expression_list_loop(_, _)
parse_expression_list_loop(l, expressions) ==
    Then(parse_expression(l), LAMBDA expression :
    IF peek(expression.lexer) = ","
    THEN parse_expression_list_loop(advance(expression.lexer),
                                    Append(expressions, expression.node))
    ELSE Parsed(AstNode("ExpressionList", <<Append(expressions, expression.node)>>),
                expression.lexer))

\* parse_expression_list
parse_expression_list(lexer) ==
    parse_expression_list_loop(lexer, <<>>)

\* parse_array_element
parse_array_element(lexer) ==
    LET identifier == parse_identifier(lexer)
    IN  Then(assert_peek(identifier.lexer, <<"[">>), LAMBDA opened :
        Then(parse_expression_list(opened.lexer), LAMBDA expression_list :
        Then(assert_peek(expression_list.lexer, <<"]">>), LAMBDA closed :
        Parsed(AstNode("ArrayElement", <<identifier.value, expression_list.node>>),
               closed.lexer))))

\* parse_variable_assignment
parse_variable_assignment(lexer) ==
    LET identifier == parse_identifier(lexer)
    IN  Then(assert_peek(identifier.lexer, <<"=">>), LAMBDA assigned :
        Then(parse_expression(assigned.lexer), LAMBDA expression :
        Parsed(AstNode("VariableAssignment", <<identifier.value, expression.node>>),
               expression.lexer)))

\* parse_for_initializer
parse_for_initializer(lexer) ==
    IF peek(lexer) = NoChar THEN Aborted("called Option::unwrap() on a None value", lexer)
    ELSE IF is_alphabetic(peek(lexer)) THEN parse_variable_assignment(lexer)
    ELSE parse_expression(lexer)

\* parse_for_iterator
parse_for_iterator(lexer) == parse_expression(lexer)

\* parse_format_string: the loop pushes consume_character() while the character at
\* the position is not the closing quote, and consume_character leaves the position
\* where it is, so that the loop ends only when it never starts
parse_format_string(lexer) ==
    Then(assert_peek(lexer, <<"\"">>), LAMBDA opened :
    IF peek(opened.lexer) # "\"" THEN Diverges(opened.lexer)
    ELSE Parsed(AstNode("Constant", <<AstNode("StringLiteral", <<<<>>>>)>>),
                advance(opened.lexer)))

\* parse_if_statement
parse_if_statement(lexer) ==
    Then(assert_peek(lexer, <<"i", "(">>), LAMBDA opened :
    Then(parse_expression(opened.lexer), LAMBDA condition :
    Then(assert_peek(condition.lexer, <<")">>), LAMBDA closed :
    Then(parse_statement(closed.lexer), LAMBDA if_body :
    Then(IF peek(if_body.lexer) = "e" THEN parse_statement(advance(if_body.lexer))
         ELSE Parsed(None, if_body.lexer), LAMBDA else_body :
    Parsed(AstNode("IfStatement", <<condition.node, if_body.node, else_body.node>>),
           else_body.lexer))))))

\* parse_while_statement
parse_while_statement(lexer) ==
    Then(assert_peek(lexer, <<"w", "(">>), LAMBDA opened :
    Then(parse_expression(opened.lexer), LAMBDA condition :
    Then(assert_peek(condition.lexer, <<")">>), LAMBDA closed :
    Then(parse_statement(closed.lexer), LAMBDA body :
    Parsed(AstNode("WhileStatement", <<condition.node, body.node>>), body.lexer)))))

\* parse_for_statement
parse_for_statement(lexer) ==
    Then(assert_peek(lexer, <<"f", "(">>), LAMBDA opened :
    Then(IF peek(opened.lexer) # ";" THEN parse_for_initializer(opened.lexer)
         ELSE Parsed(AstNode("Nil", <<>>), opened.lexer), LAMBDA initializer :
    Then(assert_peek(initializer.lexer, <<";">>), LAMBDA first :
    Then(IF peek(first.lexer) # ";" THEN parse_expression(first.lexer)
         ELSE Parsed(None, first.lexer), LAMBDA condition :
    Then(assert_peek(condition.lexer, <<";">>), LAMBDA second :
    Then(IF peek(second.lexer) # ")" THEN parse_for_iterator(second.lexer)
         ELSE Parsed(None, second.lexer), LAMBDA iterator :
    Then(assert_peek(iterator.lexer, <<")">>), LAMBDA closed :
    Then(parse_statement(closed.lexer), LAMBDA body :
    Parsed(AstNode("ForStatement",
                   <<initializer.node, condition.node, iterator.node, body.node>>),
           body.lexer)))))))))

\* parse_do_while_statement
parse_do_while_statement(lexer) ==
    Then(assert_peek(lexer, <<"d">>), LAMBDA opened :
    Then(parse_statement(opened.lexer), LAMBDA body :
    Then(assert_peek(body.lexer, <<"w", "(">>), LAMBDA while :
    Then(parse_expression(while.lexer), LAMBDA condition :
    Then(assert_peek(condition.lexer, <<")", ";">>), LAMBDA closed :
    Parsed(AstNode("DoWhileStatement", <<body.node, condition.node>>), closed.lexer))))))

\* parse_print_statement: the expression list is parsed when "{" follows the
\* keyword, and parse_redirection starts at the ">" itself
parse_print_statement(lexer) ==
    Then(assert_peek(lexer, <<"p", "r", "i", "n">>), LAMBDA keyword :
    Then(IF peek(keyword.lexer) # "{" THEN Parsed(None, keyword.lexer)
         ELSE parse_expression_list(keyword.lexer), LAMBDA expression_list :
    IF peek(expression_list.lexer) = ">"
    THEN LET redirection == parse_redirection(expression_list.lexer)
         IN  Parsed(AstNode("PrintStatement",
                            <<expression_list.node,
                              AstNode("Redirection", <<redirection.value>>)>>),
                    redirection.lexer)
    ELSE Parsed(AstNode("PrintStatement", <<expression_list.node, None>>),
                expression_list.lexer)))

\* parse_printf_statement
parse_printf_statement(lexer) ==
    Then(assert_peek(lexer, <<"p", "r", "i", "n", "t", "f", "(">>), LAMBDA keyword :
    Then(parse_format_string(keyword.lexer), LAMBDA format_string :
    Then(assert_peek(format_string.lexer, <<",">>), LAMBDA comma :
    Then(parse_expression_list(comma.lexer), LAMBDA expression_list :
    Then(assert_peek(expression_list.lexer, <<")">>), LAMBDA closed :
    IF peek(closed.lexer) = ">"
    THEN LET redirection == parse_redirection(advance(closed.lexer))
         IN  Parsed(AstNode("PrintfStatement",
                            <<format_string.node, expression_list.node,
                              AstNode("Redirection", <<redirection.value>>)>>),
                    redirection.lexer)
    ELSE Parsed(AstNode("PrintfStatement",
                        <<format_string.node, expression_list.node, None>>),
                closed.lexer))))))

\* parse_next_statement
parse_next_statement(lexer) ==
    Then(assert_peek(lexer, <<"n", "e", "x", "t">>), LAMBDA keyword :
    Parsed(AstNode("NextStatement", <<>>), keyword.lexer))

\* parse_exit_statement
parse_exit_statement(lexer) ==
    Then(assert_peek(lexer, <<"e", "x", "i", "t">>), LAMBDA keyword :
    Then(IF peek(keyword.lexer) # "{" THEN parse_expression(keyword.lexer)
         ELSE Parsed(None, keyword.lexer), LAMBDA expression :
    Parsed(AstNode("ExitStatement", <<expression.node>>), expression.lexer)))

\* parse_return_statement
parse_return_statement(lexer) ==
    Then(assert_peek(lexer, <<"r", "e", "t", "u", "r", "n">>), LAMBDA keyword :
    Then(IF peek(keyword.lexer) # "{" THEN parse_expression(keyword.lexer)
         ELSE Parsed(None, keyword.lexer), LAMBDA expression :
    Parsed(AstNode("ReturnStatement", <<expression.node>>), expression.lexer)))

\* parse_delete_statement
parse_delete_statement(lexer) ==
    Then(assert_peek(lexer, <<"d", "e", "l", "e", "t", "e">>), LAMBDA keyword :
    Then(parse_array_element(keyword.lexer), LAMBDA array_element :
    Parsed(AstNode("DeleteStatement", <<array_element.node>>), array_element.lexer)))

\* parse_statement
parse_statement(lexer) ==
    IF peek(lexer) = "i" THEN parse_if_statement(lexer)
    ELSE IF peek(lexer) = "w" THEN parse_while_statement(lexer)
    ELSE IF peek(lexer) = "f" THEN parse_for_statement(lexer)
    ELSE IF peek(lexer) = "d" THEN parse_do_while_statement(lexer)
    ELSE IF peek(lexer) = "p" THEN parse_print_statement(lexer)
    ELSE IF peek(lexer) = "p" THEN parse_printf_statement(lexer)
    ELSE IF peek(lexer) = "n" THEN parse_next_statement(lexer)
    ELSE IF peek(lexer) = "e" THEN parse_exit_statement(lexer)
    ELSE IF peek(lexer) = "r" THEN parse_return_statement(lexer)
    ELSE IF peek(lexer) = "d" THEN parse_delete_statement(lexer)
    ELSE parse_variable_assignment(lexer)

\* the loop of parse_statement_list: parse_statement_list_loop(l, statements) parses
\* the item at l, pushes it and then tests the condition of the while loop
RECURSIVE parse_statement_list_loop(_, _)
parse_statement_list_loop(l, statements) ==
    Then(parse_statement(l), LAMBDA statement :
    IF peek(statement.lexer) = ";"
    THEN parse_statement_list_loop(advance(statement.lexer),
                                   Append(statements, statement.node))
    ELSE Parsed(AstNode("StatementList", <<Append(statements, statement.node)>>),
                statement.lexer))

\* parse_statement_list
parse_statement_list(lexer) ==
    parse_statement_list_loop(lexer, <<>>)

\* parse_action
parse_action(lexer) ==
    Then(assert_peek(skip_whitespace(lexer), <<"{">>), LAMBDA opened :
    Then(parse_statement_list(opened.lexer), LAMBDA statement_list :
    Then(assert_peek(statement_list.lexer, <<"}">>), LAMBDA closed :
    Parsed(AstNode("Action", <<statement_list.node>>), closed.lexer))))

\* parse_pattern_expression
parse_pattern_expression(lexer) == parse_expression(lexer)

\* parse_pattern_action_rule
parse_pattern_action_rule(lexer) ==
    LET special(name) ==
            Parsed(AstNode("PatternExpression", <<AstNode("Variable", <<name>>)>>),
                   advance(lexer))
    IN  Then(IF peek(lexer) = "["
             THEN Then(parse_pattern_expression(advance(lexer)), LAMBDA pattern_expression :
                       Parsed(AstNode("PatternExpression", <<pattern_expression.node>>),
                              pattern_expression.lexer))
             ELSE IF peek(lexer) = "B" THEN special(<<"B", "E", "G", "I", "N">>)
             ELSE IF peek(lexer) = "E" THEN special(<<"E", "N", "D">>)
             ELSE Parsed(None, lexer), LAMBDA pattern :
        Then(parse_action(pattern.lexer), LAMBDA action :
        Parsed(AstNode("PatternActionRule", <<pattern.node, action.node>>), action.lexer)))

\* the loop of parse_program: parse_program_loop(l, program) tests the condition of
\* the while loop, then parses the rule at l and pushes it
RECURSIVE parse_program_loop(_, _)
parse_program_loop(l, program) ==
    IF peek(l) # NoChar
    THEN Then(parse_pattern_action_rule(l), LAMBDA rule :
              parse_program_loop(rule.lexer, Append(program, rule.node)))
    ELSE Parsed(AstNode("Program", <<program>>), l)

\* parse_program
parse_program(lexer) ==
    parse_program_loop(lexer, <<>>)

----------------------------------------------------------------------------
(* Calls into the library: the arguments are drawn at the start, one call is *)
(* made (join follows a split on the array that split filled).              *)

\* the strings of at most n characters of an alphabet
Strs(alphabet, n) == UNION {[1 .. k -> alphabet] : k \in 0 .. n}

TextChars == {"a", "b", ","}

Texts == Strs(TextChars, MaxStrLen)

Patterns == {<<"a">>, <<",">>, <<".">>, <<"a", "b">>, <<"(">>}

Replacements == {<<>>, <<"x">>, <<"a", "a">>}

TruthInputs ==
    {Number(-1), Number(0), Number(1), Float(<<0, 1>>), Float(<<3, 2>>), Float(<<-1, 1>>),
     Bool(TRUE), Bool(FALSE), StringLiteral(<<>>), StringLiteral(<<"a">>),
     ArrayLiteral(EmptyMap), ArrayLiteral(MapInsert(EmptyMap, <<"0">>, StringLiteral(<<"a">>))),
     Identifier(<<"x">>)}

ArithInputs ==
    {Number(-2), Number(0), Number(3), Float(<<0, 1>>), Float(<<3, 2>>),
     StringLiteral(<<"a">>)}

\* what the array holds before split is called on it
ArrayInputs ==
    {ArrayLiteral(EmptyMap),
     ArrayLiteral(MapInsert(EmptyMap, <<"1">>, StringLiteral(<<"b">>))),
     ArrayLiteral(MapInsert(EmptyMap, <<"9">>, StringLiteral(<<"b">>)))}

IndexInputs == -1 .. (MaxStrLen + 1)

\* the operands of the match functions
MatchOperands == {StringLiteral(s) : s \in Strs({"a", "b"}, 2)} \cup {Number(1)}

MatchPatterns ==
    {RegexPattern(re) : re \in Patterns} \cup {StringLiteral(re) : re \in Patterns}
    \cup {Number(1)}

\* the lines of an input file: one line or two, each of at most two characters
FileInputs ==
    LET Lines == Strs({"a", ","}, 2)
    IN  {<<l>> : l \in Lines} \cup {<<l, m>> : l \in Lines, m \in Lines}

\* the inputs of parse_expression: the operands a and b and the operators of & and |
ExpressionInputs == Strs({"a", "b", "&", "|"}, 4)

\* the inputs of parse_statement: statements of every form, spaced as AWK sources are,
\* unspaced, and cut down to the characters parse_statement tests
StatementInputs ==
    {<<"i", "f", " ", "(", "a", ")", " ", "b", "=", "1">>,
     <<"i", "f", "(", "a", ")", "b", "=", "1">>,
     <<"i", "(", "a", ")", "b", "=", "1">>,
     <<"i", "(", "a", ")", "b", "=", "1", "e", "b", "=", "2">>,
     <<"w", "h", "i", "l", "e", " ", "(", "a", ")", " ", "b", "=", "1">>,
     <<"w", "h", "i", "l", "e", "(", "a", ")", "b", "=", "1">>,
     <<"w", "(", "a", ")", "b", "=", "1">>,
     <<"f", "o", "r", " ", "(", ";", ";", ")", " ", "b", "=", "1">>,
     <<"f", "o", "r", "(", ";", ";", ")", "b", "=", "1">>,
     <<"f", "(", ";", ";", ")", "b", "=", "1">>,
     <<"f", "(", "a", "=", "1", ";", "a", ";", "a", ")", "b", "=", "1">>,
     <<"d", "o", " ", "b", "=", "1", " ", "w", "h", "i", "l", "e", " ", "(", "a", ")", ";">>,
     <<"d", "o", " ", "b", "=", "1", ";", "w", "h", "i", "l", "e", "(", "a", ")", ";">>,
     <<"d", "b", "=", "1", "w", "(", "a", ")", ";">>,
     <<"p", "r", "i", "n", "t">>,
     <<"p", "r", "i", "n", "t", " ", "a">>,
     <<"p", "r", "i", "n", "t", ">", "f">>,
     <<"p", "r", "i", "n">>,
     <<"p", "r", "i", "n", "t", "f", "(", "\"", "\"", ",", "a", ")">>,
     <<"p", "r", "i", "n", "t", "f", "(", "\"", "a", "\"", ",", "a", ")">>,
     <<"n", "e", "x", "t">>,
     <<"e", "x", "i", "t">>,
     <<"e", "x", "i", "t", " ", "1">>,
     <<"e", "x", "i", "t", "1">>,
     <<"r", "e", "t", "u", "r", "n">>,
     <<"r", "e", "t", "u", "r", "n", " ", "a">>,
     <<"r", "e", "t", "u", "r", "n", "a">>,
     <<"d", "e", "l", "e", "t", "e", " ", "a", "[", "1", "]">>,
     <<"d", "e", "l", "e", "t", "e", "a", "[", "1", "]">>,
     <<"a", "=", "1">>,
     <<"a", "=", "b", "+", "1">>,
     <<"a", "=", "(", "b", ")">>,
     <<"a", "=", "\"", "b", "\"">>,
     <<"a", "=", "b", "<", "1">>,
     <<"a", "=", "b", "!", "=", "1">>,
     <<"a", "=", "1", "*", "2">>,
     <<"a">>}

\* the inputs of parse_program: programs of one rule or two, and programs with a
\* missing brace or parenthesis, an unexpected character or an early end
ProgramInputs ==
    {<<"{", "a", "=", "1", "}">>,
     <<"B", "{", "a", "=", "1", "}">>,
     <<"B", "E", "G", "I", "N", "{", "a", "=", "1", "}">>,
     <<"E", "{", "n", "e", "x", "t", "}">>,
     <<"[", "a", "{", "a", "=", "1", "}">>,
     <<" ", "{", "a", "=", "1", ";", "b", "=", "2", "}">>,
     <<"{", "a", "=", "1", "}", "{", "b", "=", "2", "}">>,
     <<"a", "=", "1", "}">>,
     <<"{", "a", "=", "(", "1", "}">>,
     <<"{", "a", "=", "1">>,
     <<"{", "a", "=", "#", "}">>,
     <<"{", "a", "=">>,
     <<"{", "a", "=", "1", "}", "{", "b", "=">>,
     <<"{", "a", "=", "1", "}", "b", "=", "2", "}">>}
    \cup Strs({"{", "}", "a", "=", "1"}, 3)

\* the inputs of parse_format_string: closed, open and missing format strings
FormatInputs == Strs({"\"", "a", "%"}, 3)

\* the operands of index and index_of: every text, and one value of another kind
IndexOperands == {StringLiteral(s) : s \in Texts} \cup {Number(1)}

Cases ==
    [fn : {"is_truthy", "is_falsy"}, v : TruthInputs]
    \cup [fn : {"add", "subtract", "multiply", "divide"}, a : ArithInputs, b : ArithInputs]
    \cup [fn : {"sub", "gsub", "substitute"}, target : Texts, regex : Patterns,
          replacement : Replacements]
    \cup [fn : {"split"}, input : Texts, regex : Patterns, array : ArrayInputs]
    \cup [fn : {"substring"}, s : Texts, start : IndexInputs, length : IndexInputs]
    \cup [fn : {"index", "index_of"}, s : IndexOperands, t : IndexOperands]
    \cup [fn : {"ere_match", "match"}, s : MatchOperands, p : MatchPatterns]
    \cup [fn : {"match_array"}, s : MatchOperands, p : MatchPatterns, array : ArrayInputs]
    \cup [fn : {"get_field"}, content : FileInputs, delimiter : {","}, index : 0 .. 3]
    \cup [fn : {"parse_expression"}, input : ExpressionInputs]
    \cup [fn : {"parse_statement"}, input : StatementInputs]
    \cup [fn : {"parse_program"}, input : ProgramInputs]
    \cup [fn : {"parse_format_string"}, input : FormatInputs]

InitValue ==
    /\ InitVM
    /\ call \in Cases
    /\ hpc = "ready"
    /\ ret = None
    /\ subject = None

\* the call returns (or ends the process) with outcome o
Returns(o, at) ==
    /\ ret' = o.ret
    /\ subject' = o.subject
    /\ halt' = o.halt
    /\ hpc' = at
    /\ UNCHANGED <<vmvars, overflow_checks, last_store, call>>

Ready(fn) == halt = Running /\ hpc = "ready" /\ call.fn = fn

call_is_truthy ==
    /\ Ready("is_truthy")
    /\ Returns(Outcome(RustBool(is_truthy(call.v)), None, Running), "returned")

call_is_falsy ==
    /\ Ready("is_falsy")
    /\ Returns(Outcome(RustBool(is_falsy(call.v)), None, Running), "returned")

call_add ==
    /\ Ready("add")
    /\ Returns(Outcome(add(call.a, call.b), None, Running), "returned")

call_subtract ==
    /\ Ready("subtract")
    /\ Returns(Outcome(subtract(call.a, call.b), None, Running), "returned")

call_multiply ==
    /\ Ready("multiply")
    /\ Returns(Outcome(multiply(call.a, call.b), None, Running), "returned")

call_divide ==
    /\ Ready("divide")
    /\ Returns(Outcome(divide(call.a, call.b), None, Running), "returned")

call_sub ==
    /\ Ready("sub")
    /\ Returns(sub(StringLiteral(call.target), StringLiteral(call.regex),
                   StringLiteral(call.replacement)), "returned")

call_gsub ==
    /\ Ready("gsub")
    /\ Returns(gsub(StringLiteral(call.target), StringLiteral(call.regex),
                    StringLiteral(call.replacement)), "returned")

call_substitute ==
    /\ Ready("substitute")
    /\ Returns(substitute(StringLiteral(call.target), StringLiteral(call.regex),
                          StringLiteral(call.replacement)), "returned")

call_split ==
    /\ Ready("split")
    /\ Returns(split(StringLiteral(call.input), StringLiteral(call.regex), call.array),
               "split")

\* join the array that split filled, with the separator split was given
call_join ==
    /\ halt = Running
    /\ hpc = "split"
    /\ \E r \in join(StringLiteral(call.regex), StringLiteral(call.regex), subject) :
            Returns(Outcome(r, subject, Running), "joined")

call_substring ==
    /\ Ready("substring")
    /\ Returns(substring(StringLiteral(call.s), call.start, call.length, overflow_checks),
               "returned")

call_index ==
    /\ Ready("index")
    /\ Returns(index(call.s, call.t), "returned")

call_index_of ==
    /\ Ready("index_of")
    /\ Returns(index_of(call.s, call.t), "returned")

\* a call that returns r, or panics where r is Panicked; before is kept for
\* comparison
Unwrapped(before, r) ==
    IF r = Panicked
    THEN Outcome(None, before, panic("called Option::unwrap() on a None value"))
    ELSE Outcome(r, before, Running)

\* ere_match, then ere_non_match on the same operands
call_ere_non_match ==
    /\ Ready("ere_match")
    /\ Returns(Unwrapped(ere_match(call.s, call.p), ere_non_match(call.s, call.p)), "returned")

\* match, then not_match on the same operands
call_not_match ==
    /\ Ready("match")
    /\ Returns(Unwrapped(match(call.s, call.p), not_match(call.s, call.p)), "returned")

\* match_array, then non_match_array on the same operands
call_non_match_array ==
    /\ Ready("match_array")
    /\ Returns(Unwrapped(match_array(call.s, call.p, call.array),
                         non_match_array(call.s, call.p, call.array)), "returned")

\* AwkIO::new, then add_input of the file
call_add_input ==
    /\ Ready("get_field")
    /\ Returns(Outcome(None, add_input(AwkIO_new, "f", call.content), Running), "opened")

call_read_line_from_input ==
    /\ halt = Running
    /\ hpc \in {"opened", "read"}
    /\ Returns(Outcome(None, read_line_from_input(subject, "f", call.delimiter), Running),
               "read")

call_get_field ==
    /\ halt = Running
    /\ hpc = "read"
    /\ Returns(Outcome(get_field(subject, call.index), subject, Running), "returned")

\* what a parse function leaves: the node it returns and the lexer it worked on, or
\* the panic that ended the process
ParseReturns(r, at) ==
    /\ r.tag # "Diverges"
    /\ IF r.tag = "Parsed" THEN Returns(Outcome(r.node, r.lexer, Running), at)
       ELSE Returns(Outcome(None, r.lexer, panic(r.msg)), "returned")

call_parse_expression ==
    /\ Ready("parse_expression")
    /\ ParseReturns(parse_expression(Lexer_new(call.input)), "returned")

call_parse_statement ==
    /\ Ready("parse_statement")
    /\ ParseReturns(parse_statement(Lexer_new(call.input)), "returned")

call_parse_program ==
    /\ Ready("parse_program")
    /\ ParseReturns(parse_program(Lexer_new(call.input)), "returned")

\* parse_format_string up to its loop: the opening quote
call_parse_format_string ==
    /\ Ready("parse_format_string")
    /\ ParseReturns(Then(assert_peek(Lexer_new(call.input), <<"\"">>), LAMBDA opened :
                         Parsed(None, [lexer |-> opened.lexer, format_string |-> <<>>])),
                    "format_string")

\* one test of the loop of parse_format_string: an iteration, or the way out
parse_format_string_loop ==
    /\ halt = Running
    /\ hpc = "format_string"
    /\ IF peek(subject.lexer) # "\""
       THEN /\ Len(subject.format_string) < MaxCount
            /\ Returns(Outcome(None,
                               [subject EXCEPT !.format_string =
                                    Append(@, consume_character(subject.lexer))],
                               Running), "format_string")
       ELSE Returns(Outcome(AstNode("Constant",
                                    <<AstNode("StringLiteral", <<subject.format_string>>)>>),
                            advance(subject.lexer), Running), "returned")

NextValue ==
    \/ call_parse_expression
    \/ call_parse_statement
    \/ call_parse_program
    \/ call_parse_format_string
    \/ parse_format_string_loop
    \/ call_is_truthy
    \/ call_is_falsy
    \/ call_add
    \/ call_subtract
    \/ call_multiply
    \/ call_divide
    \/ call_sub
    \/ call_gsub
    \/ call_substitute
    \/ call_split
    \/ call_join
    \/ call_substring
    \/ call_index
    \/ call_index_of
    \/ call_ere_non_match
    \/ call_not_match
    \/ call_non_match_array
    \/ call_add_input
    \/ call_read_line_from_input
    \/ call_get_field

SpecValue == InitValue /\ [][NextValue]_vars

----------------------------------------------------------------------------
(* The claims *)

IsNumeric(v) == v.tag \in {"Number", "Float"}

\* C1: executing Div or Mod on two Numbers, the dividend pushed first and the
\* divisor 0 pushed last (on top), ends in a fatal error for every dividend,
\* and pushes no quotient or remainder.
C1_DivModByZeroIsFatal ==
    [][(/\ halt = Running
        /\ Len(stack) >= 2
        /\ Top = Number(0)
        /\ Second.tag = "Number"
        /\ ir' \in {"Div", "Mod"})
       => (halt'.tag = "Exit" /\ Len(stack') < Len(stack))]_vars

\* the values the truthiness rule of the specification calls falsy
SpecFalsy(v) ==
    v \in {Number(0), Float(<<0, 1>>), Bool(FALSE), StringLiteral(<<>>), ArrayLiteral(EmptyMap)}

\* C2: is_truthy(v) is false exactly for Number(0), Float(0.0), Bool(false), the
\* empty string and the empty array, true for every other value, and is_falsy(v)
\* is its negation.
C2_TruthinessRule ==
    /\ (hpc = "returned" /\ call.fn = "is_truthy") => ret = RustBool(~SpecFalsy(call.v))
    /\ (hpc = "returned" /\ call.fn = "is_falsy") => ret = RustBool(SpecFalsy(call.v))

\* C3: LoadVariable on an Identifier that was never stored pushes the empty
\* string and execution continues.
C3_UnknownVariableLoadsEmptyString ==
    [][(/\ halt = Running
        /\ Len(stack) >= 1
        /\ Top.tag = "Identifier"
        /\ Top.name \notin DOMAIN environ
        /\ ir' = "LoadVariable")
       => (halt' = Running /\ stack' = Append(Popped1, StringLiteral(<<>>)))]_vars

\* C4: add, subtract, multiply and divide of a Number and a Float, in either
\* order, yield a Float, not an absent result.
C4_MixedArithmeticPromotes ==
    (/\ hpc = "returned"
     /\ call.fn \in {"add", "subtract", "multiply", "divide"}
     /\ {call.a.tag, call.b.tag} = {"Number", "Float"})
    => ret.tag = "Float"

\* C5: on an empty stack, pushing numeric a, pushing numeric b (a non-zero
\* divisor for Div and Mod) and executing Add, Sub, Mul, Div, Mod or Exp leaves
\* exactly one entry on the stack, and that entry is a Value.
C5_BinaryOpLeavesOneValue ==
    [][(/\ halt = Running
        /\ npush = 2
        /\ Len(stack) = 2
        /\ environ = EmptyMap
        /\ IsNumeric(stack[1])
        /\ IsNumeric(stack[2])
        /\ ir' \in {"Add", "Sub", "Mul", "Div", "Mod", "Exp"}
        /\ (ir' \in {"Div", "Mod"} => stack[2] \notin {Number(0), Float(<<0, 1>>)}))
       => (halt' = Running /\ Len(stack') = 1 /\ stack'[1] # None)]_vars

\* C6: sub returns 1 if and only if the pattern matched in the target, 0 when
\* it did not, and replaces the first match only.
C6_SubReturnsWhetherMatched ==
    (hpc = "returned" /\ call.fn = "sub" /\ Regex_new_ok(call.regex))
    => /\ halt = Running
       /\ IF Regex_is_match(call.regex, call.target)
          THEN ret \in {Number(1), Bool(TRUE)}
          ELSE ret \in {Number(0), Bool(FALSE)}
       /\ subject = StringLiteral(Regex_replace(call.regex, call.target, call.replacement))

\* C7: gsub returns the number of non-overlapping matches it replaced, scanning
\* left to right, 0 when nothing matched.
C7_GsubReturnsCount ==
    (hpc = "returned" /\ call.fn = "gsub" /\ Regex_new_ok(call.regex))
    => ret = Number(MatchCount(call.regex, call.target))

\* C8: after split returns n the array holds exactly the keys "1" .. "n", the
\* pieces of the input in order; what it held before is gone.
C8_SplitResetsAndFillsOneToN ==
    (hpc = "split" /\ halt = Running)
    => /\ ret.tag = "Number"
       /\ ret.n = Len(Regex_split(call.regex, call.input))
       /\ DOMAIN subject.map = {to_string(i) : i \in 1 .. ret.n}
       /\ \A i \in 1 .. ret.n :
            subject.map[to_string(i)] = StringLiteral(Regex_split(call.regex, call.input)[i])

\* C9: splitting s on a single-character separator into an empty array and
\* joining the array with that separator gives s again.
C9_SplitJoinRoundTrip ==
    (hpc = "joined" /\ call.array = ArrayLiteral(EmptyMap) /\ Len(call.regex) = 1)
    => ret = StringLiteral(call.input)

\* the part of s inside the window of n characters that starts at the 1-based
\* position m
Window(s, m, n) ==
    LET lo == IF m < 1 THEN 1 ELSE m
        hi == IF m + n - 1 > Len(s) THEN Len(s) ELSE m + n - 1
    IN  IF lo > hi THEN <<>> ELSE SubSeq(s, lo, hi)

\* C10: substr(s, m, n) takes m as a 1-based start, clamps every out-of-range m
\* and n, and returns the part of s inside the window without failing.
C10_SubstrClampsOneBased ==
    (hpc = "returned" /\ call.fn = "substring")
    => /\ halt = Running
       /\ ret = StringLiteral(Window(call.s, call.start, call.length))

\* the 1-based positions at which t occurs in s
Occurrences(s, t) ==
    {i \in 1 .. (Len(s) + 1) :
        i + Len(t) - 1 <= Len(s) /\ SubSeq(s, i, i + Len(t) - 1) = t}

\* C11 (as stated): index(s, t) on two strings is the 1-based position of the
\* first occurrence of t in s, 0 when t does not occur; it is never negative
\* and never exceeds length(s).
C11_IndexWithinLength ==
    (/\ hpc = "returned"
     /\ call.fn \in {"index", "index_of"}
     /\ IsString(call.s)
     /\ IsString(call.t))
    => /\ halt = Running
       /\ ret.tag = "Number"
       /\ IF Occurrences(call.s.s, call.t.s) = {}
          THEN ret.n = 0
          ELSE /\ ret.n \in Occurrences(call.s.s, call.t.s)
               /\ \A j \in Occurrences(call.s.s, call.t.s) : ret.n <= j
       /\ ret.n >= 0
       /\ ret.n <= Len(call.s.s)

\* C11 (amended): index(s, t) on two strings is the 1-based position of the
\* first occurrence of t in s, 0 when t does not occur; it is never negative,
\* and it exceeds length(s) only when t is empty, where it is 1 for every s,
\* the empty s included.
C11_IndexFirstOccurrence ==
    (/\ hpc = "returned"
     /\ call.fn \in {"index", "index_of"}
     /\ IsString(call.s)
     /\ IsString(call.t))
    => /\ halt = Running
       /\ ret.tag = "Number"
       /\ IF Occurrences(call.s.s, call.t.s) = {}
          THEN ret.n = 0
          ELSE /\ ret.n \in Occurrences(call.s.s, call.t.s)
               /\ \A j \in Occurrences(call.s.s, call.t.s) : ret.n <= j
       /\ ret.n >= 0
       /\ IF call.t.s = <<>> THEN ret.n = 1 ELSE ret.n <= Len(call.s.s)

\* index finds "a" at position 2 of "ba"
C11_Witness ==
    /\ hpc = "returned"
    /\ call.fn = "index"
    /\ call.s = StringLiteral(<<"b", "a">>)
    /\ call.t = StringLiteral(<<"a">>)
    /\ ret = Number(2)

\* C12: executing Exit always ends the program: with a status value n on top of
\* the stack the exit status is n, with an empty stack the exit status is 0, and
\* the machine never goes on running after Exit.
C12_ExitTerminatesWithStatus ==
    [][(halt = Running /\ ir' = "Exit")
       => /\ halt'.tag = "Exited"
          /\ (Len(stack) > 0 /\ Top.tag = "Number") => halt'.code = Top.n
          /\ Len(stack) = 0 => halt'.code = 0]_vars

\* the process was ended by a fatal runtime error
FatalError == halt.tag \in {"Exit", "Panic"}

\* C13: every fatal runtime error raised by a handler or a value operation ends
\* the process with exit status 1.
C13_FatalErrorExitsWithOne == FatalError => halt.code = 1

\* the handler op finds the stack too short, or its operand of the wrong tag
BadOperands(op) ==
    CASE op = "Jump" -> ~TopIsInstruction
      [] op \in {"JumpIfFalse", "JumpIfTrue"} -> ~TopIsInstruction \/ Len(stack) < 2
      [] op \in {"Incr", "Decr", "Neg"} -> Len(stack) < 1 \/ ~IsNumeric(Top)
      [] op = "Pos" -> Len(stack) < 1
      [] OTHER -> FALSE

\* C15: a handler that finds the stack too short or an operand of the wrong tag
\* ends in a fatal error; Jump, JumpIfTrue and JumpIfFalse on an empty stack,
\* with no Instruction on top, or with no condition beneath the target never go
\* on silently.
C15_BadOperandsAreFatal ==
    [][(halt = Running /\ BadOperands(ir')) => halt'.tag \in {"Exit", "Panic"}]_vars

\* a conditional jump finds target t on top of a condition, and control is at
\* neither pc = t nor sp = t yet
ConditionalJumpReady(op) ==
    /\ halt = Running
    /\ ir' = op
    /\ TopIsInstruction
    /\ Len(stack) > 1
    /\ Second # None
    /\ pc # Top.target
    /\ sp # Top.target

\* control moved to the target on top of the stack
Transferred == pc' = Top.target \/ sp' = Top.target

\* C16: JumpIfFalse transfers control to its target exactly when the condition
\* is falsy under the truthiness rule (Number(0), "", Bool(false), ...), and
\* JumpIfTrue exactly when it is truthy (Number(1), a non-empty string, ...).
C16_ConditionalJumpFollowsTruthiness ==
    [][/\ ConditionalJumpReady("JumpIfFalse") => (Transferred <=> SpecFalsy(Second))
       /\ ConditionalJumpReady("JumpIfTrue") => (Transferred <=> ~SpecFalsy(Second))]_vars

\* the jump op is taken by the handler: Jump with a target on top, a conditional
\* jump with a target on top of the Bool it tests for
JumpTaken(op) ==
    /\ halt = Running
    /\ ir' = op
    /\ TopIsInstruction
    /\ op = "JumpIfFalse" => (Len(stack) > 1 /\ Second = Bool(FALSE))
    /\ op = "JumpIfTrue" => (Len(stack) > 1 /\ Second = Bool(TRUE))

\* C17: a taken jump with target t sets pc to t, so that program[t] is the next
\* instruction dispatched.
C17_TakenJumpSetsPc ==
    [][\A op \in {"Jump", "JumpIfFalse", "JumpIfTrue"} :
            JumpTaken(op) => pc' = Top.target]_vars

\* C19: when a runtime error ends the process, the END actions were executed
\* before it terminated: the last handler to run was execute_end.
C19_EndRunsBeforeErrorExit == FatalError => ir = "End"

\* left OP right for Numbers left and right, as the value operations compute it
LeftOpRight(op, left, right) ==
    CASE op = "Sub" -> subtract(left, right)
      [] op = "Div" -> divide(left, right)
      [] op = "Mod" -> remainder(left, right)
      [] op = "Exp" -> exponentiate(left, right, overflow_checks)
      [] op = "Shl" -> shift_left(left, right, overflow_checks)
      [] op = "Shr" -> shift_right(left, right, overflow_checks)
      [] op = "Lt" -> Bool(left.n < right.n)
      [] op = "Le" -> Bool(left.n <= right.n)
      [] op = "Gt" -> Bool(left.n > right.n)
      [] op = "Ge" -> Bool(left.n >= right.n)

\* C18: for Sub, Div, Mod, Exp, Shl, Shr, Lt, Le, Gt and Ge, with the left
\* operand pushed first and the right operand pushed second (on top), the
\* result pushed is left OP right, not right OP left.
C18_LeftOperandPushedFirst ==
    [][(/\ halt = Running
        /\ Len(stack) >= 2
        /\ IsNumber(Second)
        /\ IsNumber(Top)
        /\ Second.n > 0
        /\ Top.n > 0
        /\ Second.n <= 2
        /\ Top.n <= 2
        /\ ir' \in {"Sub", "Div", "Mod", "Exp", "Shl", "Shr", "Lt", "Le", "Gt", "Ge"})
       => (/\ halt' = Running
           /\ stack' = Append(Popped2, LeftOpRight(ir', Second, Top)))]_vars

\* C20: StoreVariable to a name bound to an array with a value that is not an
\* array, or of an array to a name bound to a value that is not one, ends in a
\* runtime error and leaves the globals unchanged.
C20_StoreVariableKeepsKind ==
    [][(/\ halt = Running
        /\ Len(stack) >= 2
        /\ Top.tag = "Identifier"
        /\ Top.name \in DOMAIN environ
        /\ IsArray(environ[Top.name]) # IsArray(Second)
        /\ ir' = "StoreVariable")
       => (halt'.tag \in {"Exit", "Panic"} /\ environ' = environ)]_vars

\* C14: get_field(0) is the full text of the record, get_field(i) for
\* 1 <= i <= NF is the i-th field, and get_field(i) for i > NF is the empty
\* string.
C14_GetFieldZeroIsRecord ==
    (hpc = "returned" /\ call.fn = "get_field")
    => CASE call.index = 0 ->
                ret \in {RustString(subject.line), RustString(trim(subject.line))}
         [] call.index \in 1 .. Len(subject.fields) ->
                ret = RustString(subject.fields[call.index])
         [] OTHER -> ret = RustString(<<>>)

\* what a load of the key finds in the globals
Bound(env, key) == IF key \in DOMAIN env THEN env[key] ELSE None

\* the variable was stored by StoreVariable
StoredVariable(name) == <<"variable", name, <<>>>> \in DOMAIN last_store

\* the array element was stored by StoreAssociativeArrayValue
StoredElement(ids) == <<"element", ids[1], ids[2]>> \in DOMAIN last_store

\* C24: StoreAssociativeArrayValue for (x, k) changes no other binding: every
\* scalar variable that was stored, and every stored element (y, j) other than
\* (x, k), loads the same value after the store as before it.
C24_ArrayStoreKeepsOtherBindings ==
    [][(/\ halt = Running
        /\ ir' = "StoreAssociativeArrayValue"
        /\ halt' = Running)
       => /\ \A v \in StorePushSet :
                (v.tag = "Identifier" /\ StoredVariable(v.name))
                => Bound(environ', v.name) = Bound(environ, v.name)
          /\ \A v \in StorePushSet :
                (v.tag = "AssociativeIdentifier" /\ StoredElement(v.ids) /\ v.ids # Top.ids)
                => Bound(environ', v.ids[1] \o v.ids[2]) = Bound(environ, v.ids[1] \o v.ids[2])]_vars

\* C25: after any sequence of operations, LoadVariable of a name pushes the
\* value that the last StoreVariable to that name stored and leaves the globals
\* unchanged, and LoadAssociativeArrayValue of (array, key) pushes the value that
\* the last StoreAssociativeArrayValue to that (array, key) stored.
C25_LoadReturnsLastStore ==
    [][/\ (/\ halt = Running
           /\ ir' = "LoadVariable"
           /\ Len(stack) > 0
           /\ Top.tag = "Identifier"
           /\ StoredVariable(Top.name))
          => /\ halt' = Running
             /\ stack' = Append(Popped1, last_store[<<"variable", Top.name, <<>>>>])
             /\ environ' = environ
       /\ (/\ halt = Running
           /\ ir' = "LoadAssociativeArrayValue"
           /\ Len(stack) > 0
           /\ Top.tag = "AssociativeIdentifier"
           /\ StoredElement(Top.ids))
          => /\ halt' = Running
             /\ stack' = Append(Popped1, last_store[<<"element", Top.ids[1], Top.ids[2]>>])
             /\ environ' = environ]_vars

\* C28: every handler other than Jump, JumpIfTrue and JumpIfFalse leaves pc and
\* sp unchanged; LoadAssociativeArrayValue leaves them as LoadVariable does.
C28_OnlyJumpsMoveControl ==
    [][(halt = Running /\ ir' \notin {"Jump", "JumpIfTrue", "JumpIfFalse"})
       => (pc' = pc /\ sp' = sp)]_vars

\* whether the comparison opcode op holds of left (popped first) and right
Holds(op, left, right) ==
    CASE op = "Eq" -> left = right
      [] op = "Ne" -> left # right
      [] op = "Gt" -> Option_cmp(left, right) > 0
      [] op = "Ge" -> Option_cmp(left, right) >= 0
      [] op = "Lt" -> Option_cmp(left, right) < 0
      [] op = "Le" -> Option_cmp(left, right) <= 0

\* a comparison handler runs on two Values
Compares ==
    /\ halt = Running
    /\ ir' \in {"Eq", "Ne", "Gt", "Ge", "Lt", "Le"}
    /\ Len(stack) >= 2
    /\ Top # None
    /\ Second # None

\* every comparison handler pushes the Bool that Holds gives for its operands
ComparisonPushesHolds ==
    [][Compares => stack' = Append(Popped2, Bool(Holds(ir', Top, Second)))]_vars

\* C26: for every pair of Values a, b the comparison opcodes agree: Ge(a, b)
\* holds exactly when Gt(a, b) or Eq(a, b) holds, Le(a, b) exactly when
\* Lt(a, b) or Eq(a, b) holds, and Ne(a, b) is the negation of Eq(a, b).
C26_ComparisonsConsistent ==
    [][Compares =>
        /\ stack' = Append(Popped2, Bool(Holds(ir', Top, Second)))
        /\ Holds("Ge", Top, Second) <=> (Holds("Gt", Top, Second) \/ Holds("Eq", Top, Second))
        /\ Holds("Le", Top, Second) <=> (Holds("Lt", Top, Second) \/ Holds("Eq", Top, Second))
        /\ Holds("Ne", Top, Second) <=> ~Holds("Eq", Top, Second)]_vars

\* C27: wherever a match operation and its non-match operation both return a
\* result, the second is the negation of the first: ere_non_match against
\* ere_match, not_match against match, non_match_array against match_array.
C27_NonMatchNegatesMatch ==
    (/\ hpc = "returned"
     /\ call.fn \in {"ere_match", "match", "match_array"}
     /\ halt = Running
     /\ ret # None
     /\ subject # None)
    => ret = Bool(~subject.b)

\* the number of records read_line_from_input has taken from the input
RecordsRead == Len(call.content) - Len(subject.inputs["f"])

\* C30: after a read_line_from_input that read a record, the current line and
\* the fields hold that record only: the line is the record just read and the
\* fields are its split by the delimiter, with no text of an earlier record.
C30_LineHoldsLastRecordOnly ==
    (hpc = "read" /\ call.fn = "get_field" /\ RecordsRead >= 1)
    => /\ trim(subject.line) = trim(call.content[RecordsRead])
       /\ subject.fields = str_split(trim(call.content[RecordsRead]), call.delimiter)

\* the node the specification names for each operator of & and |
OperatorNodes ==
    {[operator |-> <<"&", "&">>, variant |-> "LogicalAndExpression"],
     [operator |-> <<"|", "|">>, variant |-> "LogicalOrExpression"],
     [operator |-> <<"&">>, variant |-> "AndExpression"],
     [operator |-> <<"|">>, variant |-> "InclusiveOrExpression"]}

\* C21: parse_expression tells "&&" from "&" and "||" from "|": an input of two
\* operands around one of the four operators yields the node of that operator (the
\* logical node for the doubled character, the bitwise node for the single one), the
\* node holds both operands, and every character of the input is consumed into it.
C21_LogicalAndBitwiseDistinguished ==
    \A o \in OperatorNodes : \A x, y \in {"a", "b"} :
        (hpc = "returned" /\ call.fn = "parse_expression"
            /\ call.input = <<x>> \o o.operator \o <<y>>)
        => /\ halt = Running
           /\ ret.tag = o.variant
           /\ ret.args = <<AstNode("Variable", <<<<x>>>>), <<AstNode("Variable", <<<<y>>>>)>>>>
           /\ subject.position = Len(call.input)

\* the statement node the specification names for each leading keyword
StatementKeywords ==
    {[keyword |-> <<"i", "f", " ", "(">>, variant |-> "IfStatement"],
     [keyword |-> <<"w", "h", "i", "l", "e", " ", "(">>, variant |-> "WhileStatement"],
     [keyword |-> <<"f", "o", "r", " ", "(">>, variant |-> "ForStatement"],
     [keyword |-> <<"d", "o">>, variant |-> "DoWhileStatement"],
     [keyword |-> <<"p", "r", "i", "n", "t", "f">>, variant |-> "PrintfStatement"],
     [keyword |-> <<"n", "e", "x", "t">>, variant |-> "NextStatement"],
     [keyword |-> <<"e", "x", "i", "t">>, variant |-> "ExitStatement"],
     [keyword |-> <<"r", "e", "t", "u", "r", "n">>, variant |-> "ReturnStatement"],
     [keyword |-> <<"d", "e", "l", "e", "t", "e">>, variant |-> "DeleteStatement"]}

\* the input starts with the characters of keyword
BeginsWith(input, keyword) ==
    Len(input) >= Len(keyword) /\ SubSeq(input, 1, Len(keyword)) = keyword

\* C22: parse_statement selects the statement form by the whole leading keyword: a
\* statement that begins with "if (", "while (", "for (", "do", "printf", "next",
\* "exit", "return" or "delete" yields the node of that form, and one that begins
\* with "print" but not with "printf" yields a PrintStatement.
C22_StatementFormByKeyword ==
    (hpc = "returned" /\ call.fn = "parse_statement")
    => /\ \A k \in StatementKeywords :
              BeginsWith(call.input, k.keyword) => (halt = Running /\ ret.tag = k.variant)
       /\ (BeginsWith(call.input, <<"p", "r", "i", "n", "t">>)
              /\ ~BeginsWith(call.input, <<"p", "r", "i", "n", "t", "f">>))
          => (halt = Running /\ ret.tag = "PrintStatement")

\* C23: a syntax error never ends the parser through a failed assertion or a panic:
\* whatever the program text, parse_program returns.
C23_SyntaxErrorNeverPanics ==
    (hpc = "returned" /\ call.fn = "parse_program") => halt.tag # "Panic"

\* C29: every iteration of the loop of parse_format_string strictly advances the
\* position of the lexer, so that the loop reaches the closing quote or the end of
\* the input after finitely many steps.
C29_FormatStringLoopAdvances ==
    [][(hpc = "format_string" /\ hpc' = "format_string")
        => subject'.lexer.position > subject.lexer.position]_vars

====
